---- MODULE Spec2Model ----
(***************************************************************************)
(* The modal text editor of senterm (src/src/viewer/editor.rs) together    *)
(* with its key handlers (src/src/events/editor.rs, events/viewer.rs,      *)
(* events/clipboard.rs) and the part of the main loop that routes a key    *)
(* to them (src/src/main.rs).                                              *)
(*                                                                         *)
(* A character is a one-character string, a line (a Rust String) is a      *)
(* sequence of characters, and the buffer is a sequence of lines.  Rows    *)
(* and columns are 0-based as in the source; TLA+ sequences are 1-based,   *)
(* so line r of the buffer is lines[r + 1].  Every character of the model  *)
(* is one byte wide, so a byte offset into a line equals a character       *)
(* index.                                                                  *)
(*                                                                         *)
(* The editor is a record e with one field per field of TextEditor, plus   *)
(* three fields of its surroundings: viewer_editing (App::viewer_editing,  *)
(* false once exit_editor has dropped the editor), disk (the content of    *)
(* the file behind file_path) and panicked (a Rust panic: an index or a    *)
(* slice out of range aborts the process).  A method of TextEditor is an   *)
(* operator from records to records.                                       *)
(***************************************************************************)
EXTENDS Integers, Sequences, FiniteSets, TLC

VARIABLES
    lines,              \* Vec<String>
    cursor_row,         \* usize
    cursor_col,         \* usize (character index)
    mode,               \* VimMode
    editor_style,       \* EditorStyle
    command_buffer,     \* String
    clipboard,          \* Vec<String>
    clipboard_is_line,  \* bool
    status_message,     \* String, as a sequence of fragments
    modified,           \* bool
    pending_op,         \* PendingOperator
    undo_stack,         \* Vec<(Vec<String>, usize, usize)>
    redo_stack,         \* Vec<(Vec<String>, usize, usize)>
    search_pattern,     \* String
    search_direction,   \* bool, TRUE = forward
    last_search_row,    \* usize
    last_search_col,    \* usize
    visual_start_row,   \* usize
    visual_start_col,   \* usize
    count_buffer,       \* String of digits
    nano_search_mode,   \* bool
    file_path,          \* Option<PathBuf>: "Some" or "None"
    viewer_editing,     \* App::viewer_editing (text_editor is Some)
    disk,               \* content of the file behind file_path
    panicked,           \* the process has aborted in a panic
    typed               \* the keys handled since the session opened (history)

vars == <<lines, cursor_row, cursor_col, mode, editor_style, command_buffer,
          clipboard, clipboard_is_line, status_message, modified, pending_op,
          undo_stack, redo_stack, search_pattern, search_direction,
          last_search_row, last_search_col, visual_start_row, visual_start_col,
          count_buffer, nano_search_mode, file_path, viewer_editing, disk,
          panicked, typed>>

\* The editor and its surroundings as one record.
Ed == [lines |-> lines, cursor_row |-> cursor_row, cursor_col |-> cursor_col,
       mode |-> mode, editor_style |-> editor_style,
       command_buffer |-> command_buffer, clipboard |-> clipboard,
       clipboard_is_line |-> clipboard_is_line,
       status_message |-> status_message, modified |-> modified,
       pending_op |-> pending_op, undo_stack |-> undo_stack,
       redo_stack |-> redo_stack, search_pattern |-> search_pattern,
       search_direction |-> search_direction,
       last_search_row |-> last_search_row, last_search_col |-> last_search_col,
       visual_start_row |-> visual_start_row,
       visual_start_col |-> visual_start_col, count_buffer |-> count_buffer,
       nano_search_mode |-> nano_search_mode, file_path |-> file_path,
       viewer_editing |-> viewer_editing, disk |-> disk, panicked |-> panicked]

-----------------------------------------------------------------------------
(* Bounds of the model *)

\* Largest number of keys of a session under Spec.
MaxKeys == 3
\* Largest number of keys of a session under SpecTyped.
MaxTyped == 4
\* Largest number of keys of a session under SpecLines.
MaxLineKeys == 6
\* Largest number of digits of a count prefix.
MaxCountDigits == 1

\* save_undo's cap on the undo stack.
UndoCap == 100
\* Rows moved by a half-page and by a full-page motion.
HalfPage == 15
FullPage == 30
\* Width of one indentation step.
IndentWidth == 4

-----------------------------------------------------------------------------
(* Arithmetic and slices *)

Min(a, b) == IF a < b THEN a ELSE b
Max(a, b) == IF a > b THEN a ELSE b
\* usize::saturating_sub
saturating_sub(a, b) == IF a > b THEN a - b ELSE 0

\* chars[a..b], chars[a..] and chars[..b] of Rust, for 0 <= a <= b <= len
Slice(s, a, b) == SubSeq(s, a + 1, b)
SliceFrom(s, a) == SubSeq(s, a + 1, Len(s))
SliceTo(s, b) == SubSeq(s, 1, b)

\* Vec::remove(i) and Vec::insert(i, x) with a 0-based index.
RemoveAt(s, i) == SubSeq(s, 1, i) \o SubSeq(s, i + 2, Len(s))
InsertAt(s, i, x) == SubSeq(s, 1, i) \o <<x>> \o SubSeq(s, i + 1, Len(s))
\* Vec::drain(a..b): what is left.
Drain(s, a, b) == SubSeq(s, 1, a) \o SubSeq(s, b + 1, Len(s))
ReplaceAt(s, i, x) == [s EXCEPT ![i + 1] = x]

\* [String]::join(sep)
RECURSIVE join(_, _)
join(ss, sep) ==
    IF ss = <<>> THEN <<>>
    ELSE IF Len(ss) = 1 THEN ss[1]
    ELSE ss[1] \o sep \o join(Tail(ss), sep)

-----------------------------------------------------------------------------
(* Characters *)

LowerSeq == <<"a", "b", "c", "d", "e", "f", "g", "h", "i", "j", "k", "l", "m",
             "n", "o", "p", "q", "r", "s", "t", "u", "v", "w", "x", "y", "z">>
UpperSeq == <<"A", "B", "C", "D", "E", "F", "G", "H", "I", "J", "K", "L", "M",
             "N", "O", "P", "Q", "R", "S", "T", "U", "V", "W", "X", "Y", "Z">>
Lower == {LowerSeq[i] : i \in DOMAIN LowerSeq}
Upper == {UpperSeq[i] : i \in DOMAIN UpperSeq}
Digits == {"0", "1", "2", "3", "4", "5", "6", "7", "8", "9"}
Whitespace == {" ", "\n", "\r", "\t"}

\* char::is_whitespace
is_whitespace(c) == c \in Whitespace
\* char::is_alphanumeric() || c == '_'
is_word_char(c) == c \in Lower \cup Upper \cup Digits \cup {"_"}
is_lowercase(c) == c \in Lower
to_uppercase(c) ==
    IF c \in Lower THEN UpperSeq[CHOOSE i \in DOMAIN LowerSeq : LowerSeq[i] = c] ELSE c
to_lowercase(c) ==
    IF c \in Upper THEN LowerSeq[CHOOSE i \in DOMAIN UpperSeq : UpperSeq[i] = c] ELSE c

char_count(s) == Len(s)
\* Byte offset of character char_idx, or the length of s when there is none.
char_to_byte_index(s, char_idx) == Min(char_idx, Len(s))
insert_char_at(s, char_idx, c) == InsertAt(s, char_to_byte_index(s, char_idx), c)
\* The string after remove_char_at; it is unchanged when char_idx is past the end.
remove_char_at(s, char_idx) ==
    IF char_to_byte_index(s, char_idx) < Len(s) THEN RemoveAt(s, char_idx) ELSE s

-----------------------------------------------------------------------------
(* Text and numbers *)

\* str::lines: the pieces between line feeds; a piece a line feed ends loses one
\* carriage return before it; no piece follows a final line feed.
RECURSIVE SplitLines(_, _)
SplitLines(s, cur) ==
    IF s = <<>> THEN (IF cur = <<>> THEN <<>> ELSE <<cur>>)
    ELSE IF Head(s) = "\n"
         THEN <<IF cur # <<>> /\ cur[Len(cur)] = "\r"
                THEN SubSeq(cur, 1, Len(cur) - 1) ELSE cur>>
              \o SplitLines(Tail(s), <<>>)
         ELSE SplitLines(Tail(s), Append(cur, Head(s)))
str_lines(s) == SplitLines(s, <<>>)

DigitValue(c) == CHOOSE n \in 0..9 : ToString(n) = c
\* str::parse::<usize>: the number (after an optional plus sign), or -1 for Err
RECURSIVE ParseDigits(_, _)
ParseDigits(s, acc) ==
    IF s = <<>> THEN acc
    ELSE IF Head(s) \in Digits THEN ParseDigits(Tail(s), 10 * acc + DigitValue(Head(s)))
    ELSE -1
parse_usize(s) ==
    IF s = <<>> THEN -1
    ELSE IF Head(s) = "+" THEN (IF Tail(s) = <<>> THEN -1 ELSE ParseDigits(Tail(s), 0))
    ELSE ParseDigits(s, 0)

-----------------------------------------------------------------------------
(* TextEditor: construction, style, count, history *)

Panic(e) == [e EXCEPT !.panicked = TRUE]

\* new that keeps the content as one line
new_unsplit(content, path) ==
    [lines |-> <<content>>,
     cursor_row |-> 0, cursor_col |-> 0, mode |-> "Normal", editor_style |-> "Vim",
     command_buffer |-> <<>>, clipboard |-> <<>>, clipboard_is_line |-> FALSE,
     status_message |-> <<"-- NORMAL --">>, modified |-> FALSE,
     pending_op |-> "None", undo_stack |-> <<>>, redo_stack |-> <<>>,
     search_pattern |-> <<>>, search_direction |-> TRUE,
     last_search_row |-> 0, last_search_col |-> 0,
     visual_start_row |-> 0, visual_start_col |-> 0, count_buffer |-> <<>>,
     nano_search_mode |-> FALSE, file_path |-> path,
     viewer_editing |-> TRUE, disk |-> content, panicked |-> FALSE]

new(content, path) ==
    [lines |-> IF str_lines(content) = <<>> THEN << <<>> >> ELSE str_lines(content),
     cursor_row |-> 0, cursor_col |-> 0, mode |-> "Normal", editor_style |-> "Vim",
     command_buffer |-> <<>>, clipboard |-> <<>>, clipboard_is_line |-> FALSE,
     status_message |-> <<"-- NORMAL --">>, modified |-> FALSE,
     pending_op |-> "None", undo_stack |-> <<>>, redo_stack |-> <<>>,
     search_pattern |-> <<>>, search_direction |-> TRUE,
     last_search_row |-> 0, last_search_col |-> 0,
     visual_start_row |-> 0, visual_start_col |-> 0, count_buffer |-> <<>>,
     nano_search_mode |-> FALSE, file_path |-> path,
     viewer_editing |-> TRUE, disk |-> content, panicked |-> FALSE]

toggle_editor_style(e) ==
    LET s == IF e.editor_style = "Vim"
             THEN [e EXCEPT !.editor_style = "Nano", !.mode = "Insert",
                     !.status_message =
                       <<"-- NANO MODE -- ^X:Exit ^O:Save ^K:Cut ^U:Paste ^W:Search">>]
             ELSE [e EXCEPT !.editor_style = "Vim", !.mode = "Normal",
                     !.status_message = <<"-- NORMAL --">>]
    IN [s EXCEPT !.pending_op = "None", !.count_buffer = <<>>,
                 !.nano_search_mode = FALSE]

\* get_count: the count it returns, and the editor it leaves
count_of(e) == Max(IF parse_usize(e.count_buffer) = -1 THEN 1
                   ELSE parse_usize(e.count_buffer), 1)
\* get_count that leaves the count buffer as it is
get_count_kept(e) == e

get_count(e) == [e EXCEPT !.count_buffer = <<>>]

Snapshot(e) == <<e.lines, e.cursor_row, e.cursor_col>>

\* save_undo that evicts the newest entry, not the oldest, past the cap
save_undo_newest_evicted(e) ==
    IF e.panicked THEN e ELSE
    LET pushed == Append(e.undo_stack, Snapshot(e))
    IN [e EXCEPT !.undo_stack = IF Len(pushed) > UndoCap
                                THEN SubSeq(pushed, 1, UndoCap) ELSE pushed,
                 !.redo_stack = <<>>]

save_undo(e) ==
    IF e.panicked THEN e ELSE
    LET pushed == Append(e.undo_stack, Snapshot(e))
    IN [e EXCEPT !.undo_stack = IF Len(pushed) > UndoCap THEN Tail(pushed) ELSE pushed,
                 !.redo_stack = <<>>]

get_content(e) == join(e.lines, <<"\n">>)

\* lines.get(cursor_row).unwrap_or("")
get_current_line(e) ==
    IF e.cursor_row < Len(e.lines) THEN e.lines[e.cursor_row + 1] ELSE <<>>

\* get_current_line_mut indexes lines[cursor_row]: it panics past the last line
RowOk(e) == e.cursor_row < Len(e.lines)
SetLine(e, l) == [e EXCEPT !.lines[e.cursor_row + 1] = l]

clamp_cursor_col(e) ==
    IF e.panicked THEN e ELSE
    LET line_len == char_count(get_current_line(e))
        max_col == IF e.mode = "Insert" THEN line_len
                   ELSE Max(saturating_sub(line_len, 1), 0)
    IN [e EXCEPT !.cursor_col = Min(e.cursor_col, max_col)]

\* undo that reports nothing when there is nothing to undo
undo_silent(e) ==
    IF e.panicked THEN e ELSE
    IF e.undo_stack # <<>>
    THEN LET top == e.undo_stack[Len(e.undo_stack)]
         IN clamp_cursor_col(
              [e EXCEPT !.undo_stack = SubSeq(e.undo_stack, 1, Len(e.undo_stack) - 1),
                        !.redo_stack = Append(e.redo_stack, Snapshot(e)),
                        !.lines = top[1],
                        !.cursor_row = Min(top[2], saturating_sub(Len(top[1]), 1)),
                        !.cursor_col = top[3],
                        !.status_message = <<"Undo">>])
    ELSE e

undo(e) ==
    IF e.panicked THEN e ELSE
    IF e.undo_stack # <<>>
    THEN LET top == e.undo_stack[Len(e.undo_stack)]
         IN clamp_cursor_col(
              [e EXCEPT !.undo_stack = SubSeq(e.undo_stack, 1, Len(e.undo_stack) - 1),
                        !.redo_stack = Append(e.redo_stack, Snapshot(e)),
                        !.lines = top[1],
                        !.cursor_row = Min(top[2], saturating_sub(Len(top[1]), 1)),
                        !.cursor_col = top[3],
                        !.status_message = <<"Undo">>])
    ELSE [e EXCEPT !.status_message = <<"Already at oldest change">>]

redo(e) ==
    IF e.panicked THEN e ELSE
    IF e.redo_stack # <<>>
    THEN LET top == e.redo_stack[Len(e.redo_stack)]
         IN clamp_cursor_col(
              [e EXCEPT !.redo_stack = SubSeq(e.redo_stack, 1, Len(e.redo_stack) - 1),
                        !.undo_stack = Append(e.undo_stack, Snapshot(e)),
                        !.lines = top[1],
                        !.cursor_row = Min(top[2], saturating_sub(Len(top[1]), 1)),
                        !.cursor_col = top[3],
                        !.status_message = <<"Redo">>])
    ELSE [e EXCEPT !.status_message = <<"Already at newest change">>]

-----------------------------------------------------------------------------
(* TextEditor: motions *)

move_cursor_left(e) ==
    IF e.panicked THEN e ELSE
    IF e.cursor_col > 0 THEN [e EXCEPT !.cursor_col = e.cursor_col - 1] ELSE e

move_cursor_right(e) ==
    IF e.panicked THEN e ELSE
    LET line_len == char_count(get_current_line(e))
        max_col == IF e.mode = "Insert" THEN line_len ELSE saturating_sub(line_len, 1)
    IN IF e.cursor_col < max_col THEN [e EXCEPT !.cursor_col = e.cursor_col + 1] ELSE e

move_cursor_up(e) ==
    IF e.panicked THEN e ELSE
    IF e.cursor_row > 0
    THEN clamp_cursor_col([e EXCEPT !.cursor_row = e.cursor_row - 1]) ELSE e

move_cursor_down(e) ==
    IF e.panicked THEN e ELSE
    IF e.cursor_row < Len(e.lines) - 1
    THEN clamp_cursor_col([e EXCEPT !.cursor_row = e.cursor_row + 1]) ELSE e

move_to_line_start(e) == IF e.panicked THEN e ELSE [e EXCEPT !.cursor_col = 0]

move_to_line_end(e) ==
    IF e.panicked THEN e ELSE
    LET line_len == char_count(get_current_line(e))
    IN [e EXCEPT !.cursor_col = IF e.mode = "Insert" THEN line_len
                                ELSE Max(saturating_sub(line_len, 1), 0)]

move_to_first_line(e) ==
    IF e.panicked THEN e ELSE [e EXCEPT !.cursor_row = 0, !.cursor_col = 0]

move_to_last_line(e) ==
    IF e.panicked THEN e ELSE
    [e EXCEPT !.cursor_row = saturating_sub(Len(e.lines), 1), !.cursor_col = 0]

\* move_to_line without the bound by the last line
move_to_line_unclamped(e, line_num) ==
    IF e.panicked THEN e ELSE
    IF line_num > 0
    THEN [e EXCEPT !.cursor_row = line_num - 1, !.cursor_col = 0]
    ELSE e

move_to_line(e, line_num) ==
    IF e.panicked THEN e ELSE
    IF line_num > 0
    THEN [e EXCEPT !.cursor_row = Min(line_num - 1, saturating_sub(Len(e.lines), 1)),
                   !.cursor_col = 0]
    ELSE e

\* chars().position(|c| !c.is_whitespace()).unwrap_or(0)
FirstNonblank(s) ==
    IF \E i \in 1..Len(s) : ~is_whitespace(s[i])
    THEN (CHOOSE i \in 1..Len(s) :
            ~is_whitespace(s[i]) /\ \A j \in 1..(i - 1) : is_whitespace(s[j])) - 1
    ELSE 0

move_to_first_nonblank(e) ==
    IF e.panicked THEN e ELSE [e EXCEPT !.cursor_col = FirstNonblank(get_current_line(e))]

\* The three character classes of the word motions.
InClass(c, cls) ==
    CASE cls = "word" -> is_word_char(c)
      [] cls = "space" -> is_whitespace(c)
      [] cls = "punct" -> ~is_whitespace(c) /\ ~is_word_char(c)

\* while col < len && class(chars[col]) { col += 1 }
RECURSIVE SkipForward(_, _, _)
SkipForward(chars, col, cls) ==
    IF col < Len(chars) /\ InClass(chars[col + 1], cls)
    THEN SkipForward(chars, col + 1, cls) ELSE col

\* while col > 0 && class(chars[col]) { col -= 1 }
RECURSIVE SkipBackAt(_, _, _)
SkipBackAt(chars, col, cls) ==
    IF col > 0 /\ InClass(chars[col + 1], cls)
    THEN SkipBackAt(chars, col - 1, cls) ELSE col

\* while col > 0 && class(chars[col - 1]) { col -= 1 }
RECURSIVE SkipBackBefore(_, _, _)
SkipBackBefore(chars, col, cls) ==
    IF col > 0 /\ InClass(chars[col], cls)
    THEN SkipBackBefore(chars, col - 1, cls) ELSE col

NextLineFirstNonblank(e) ==
    move_to_first_nonblank([e EXCEPT !.cursor_row = e.cursor_row + 1, !.cursor_col = 0])

move_word_forward(e) ==
    IF e.panicked THEN e ELSE
    LET chars == get_current_line(e)
        len == Len(chars)
        col0 == e.cursor_col
    IN IF col0 >= len
       THEN (IF e.cursor_row < Len(e.lines) - 1 THEN NextLineFirstNonblank(e) ELSE e)
       ELSE LET col1 == IF is_word_char(chars[col0 + 1])
                        THEN SkipForward(chars, col0, "word")
                        ELSE IF ~is_whitespace(chars[col0 + 1])
                             THEN SkipForward(chars, col0, "punct")
                             ELSE col0
                col2 == SkipForward(chars, col1, "space")
            IN IF col2 >= len
               THEN (IF e.cursor_row < Len(e.lines) - 1
                     THEN NextLineFirstNonblank(e)
                     ELSE [e EXCEPT !.cursor_col = saturating_sub(len, 1)])
               ELSE [e EXCEPT !.cursor_col = col2]

move_word_backward(e) ==
    IF e.panicked THEN e ELSE
    IF e.cursor_col = 0
    THEN (IF e.cursor_row > 0
          THEN LET up == [e EXCEPT !.cursor_row = e.cursor_row - 1]
               IN [up EXCEPT !.cursor_col =
                        saturating_sub(char_count(get_current_line(up)), 1)]
          ELSE e)
    ELSE LET chars == get_current_line(e)
             col0 == saturating_sub(e.cursor_col, 1)
         IN IF col0 >= Len(chars) THEN Panic(e)   \* chars[col] out of range
            ELSE LET col1 == SkipBackAt(chars, col0, "space")
                     col2 == IF is_word_char(chars[col1 + 1])
                             THEN SkipBackBefore(chars, col1, "word")
                             ELSE IF ~is_whitespace(chars[col1 + 1])
                                  THEN SkipBackBefore(chars, col1, "punct")
                                  ELSE col1
                 IN [e EXCEPT !.cursor_col = col2]

\* The loop that finds the end of a word, from col, stopping before limit.
RECURSIVE WordEndScan(_, _, _)
WordEndScan(chars, col, limit) ==
    IF col < limit
    THEN IF is_word_char(chars[col + 1])
         THEN (IF ~is_word_char(chars[col + 2]) THEN col
               ELSE WordEndScan(chars, col + 1, limit))
         ELSE IF ~is_whitespace(chars[col + 1])
                 /\ (is_whitespace(chars[col + 2]) \/ is_word_char(chars[col + 2]))
              THEN col
              ELSE WordEndScan(chars, col + 1, limit)
    ELSE col

move_word_end(e) ==
    IF e.panicked THEN e ELSE
    LET chars == get_current_line(e)
        len == Len(chars)
    IN IF e.cursor_col >= saturating_sub(len, 1)
       THEN (IF e.cursor_row < Len(e.lines) - 1
             THEN [e EXCEPT !.cursor_row = e.cursor_row + 1, !.cursor_col = 0]
             ELSE e)
       ELSE LET col == SkipForward(chars, e.cursor_col + 1, "space")
            IN IF col >= len
               THEN (IF e.cursor_row < Len(e.lines) - 1
                     THEN LET new_chars == e.lines[e.cursor_row + 2]
                              start == SkipForward(new_chars, 0, "space")
                          IN [e EXCEPT !.cursor_row = e.cursor_row + 1,
                                       !.cursor_col =
                                         WordEndScan(new_chars, start,
                                                     saturating_sub(Len(new_chars), 1))]
                     ELSE e)
               ELSE [e EXCEPT !.cursor_col =
                        Min(WordEndScan(chars, col, saturating_sub(len, 1)),
                            saturating_sub(len, 1))]

move_half_page_down(e) ==
    IF e.panicked THEN e ELSE
    clamp_cursor_col([e EXCEPT !.cursor_row =
        Min(e.cursor_row + HalfPage, saturating_sub(Len(e.lines), 1))])

move_half_page_up(e) ==
    IF e.panicked THEN e ELSE
    clamp_cursor_col([e EXCEPT !.cursor_row = saturating_sub(e.cursor_row, HalfPage)])

move_page_down(e) ==
    IF e.panicked THEN e ELSE
    clamp_cursor_col([e EXCEPT !.cursor_row =
        Min(e.cursor_row + FullPage, saturating_sub(Len(e.lines), 1))])

move_page_up(e) ==
    IF e.panicked THEN e ELSE
    clamp_cursor_col([e EXCEPT !.cursor_row = saturating_sub(e.cursor_row, FullPage)])

\* The bracket that matches c and whether it lies forward; <<>> for no bracket.
BracketPair(c) ==
    CASE c = "(" -> <<")", TRUE>>  [] c = ")" -> <<"(", FALSE>>
      [] c = "[" -> <<"]", TRUE>>  [] c = "]" -> <<"[", FALSE>>
      [] c = "{" -> <<"}", TRUE>>  [] c = "}" -> <<"{", FALSE>>
      [] c = "<" -> <<">", TRUE>>  [] c = ">" -> <<"<", FALSE>>
      [] OTHER -> <<>>

\* The forward scan of move_to_matching_bracket: <<row, col>> of the match, or <<>>.
RECURSIVE BracketForward(_, _, _, _, _, _)
BracketForward(ls, row, col, depth, current, target) ==
    IF row >= Len(ls) THEN <<>>
    ELSE IF col >= Len(ls[row + 1])
         THEN BracketForward(ls, row + 1, 0, depth, current, target)
         ELSE LET c == ls[row + 1][col + 1]
              IN IF c = current
                 THEN BracketForward(ls, row, col + 1, depth + 1, current, target)
                 ELSE IF c = target
                      THEN (IF depth - 1 = 0 THEN <<row, col>>
                            ELSE BracketForward(ls, row, col + 1, depth - 1,
                                                current, target))
                      ELSE BracketForward(ls, row, col + 1, depth, current, target)

\* The backward scan: the character at (row, col) is examined when it exists.
RECURSIVE BracketBackward(_, _, _, _, _, _)
BracketBackward(ls, row, col, depth, current, target) ==
    LET here == col < Len(ls[row + 1])
        c == ls[row + 1][col + 1]
        d == IF here /\ c = current THEN depth + 1
             ELSE IF here /\ c = target THEN depth - 1 ELSE depth
    IN IF here /\ c # current /\ c = target /\ d = 0 THEN <<row, col>>
       ELSE IF col > 0 THEN BracketBackward(ls, row, col - 1, d, current, target)
       ELSE IF row = 0 THEN <<>>
       ELSE BracketBackward(ls, row - 1, saturating_sub(Len(ls[row]), 1), d,
                            current, target)

move_to_matching_bracket(e) ==
    IF e.panicked THEN e ELSE
    LET chars == get_current_line(e)
    IN IF e.cursor_col >= Len(chars) THEN e
       ELSE LET current == chars[e.cursor_col + 1]
                pair == BracketPair(current)
            IN IF pair = <<>> THEN e
               ELSE LET row == e.cursor_row
                        col == e.cursor_col
                        hit == IF pair[2]
                               THEN BracketForward(e.lines, row, col + 1, 1,
                                                   current, pair[1])
                               ELSE IF col > 0
                                    THEN BracketBackward(e.lines, row, col - 1, 1,
                                                         current, pair[1])
                                    ELSE IF row > 0
                                         THEN BracketBackward(e.lines, row - 1,
                                                saturating_sub(Len(e.lines[row]), 1),
                                                1, current, pair[1])
                                         ELSE BracketBackward(e.lines, row, col, 1,
                                                              current, pair[1])
                    IN IF hit = <<>> THEN e
                       ELSE [e EXCEPT !.cursor_row = hit[1], !.cursor_col = hit[2]]

-----------------------------------------------------------------------------
(* TextEditor: mode transitions *)

enter_insert_mode(e) ==
    IF e.panicked THEN e ELSE
    [e EXCEPT !.mode = "Insert", !.pending_op = "None", !.count_buffer = <<>>,
              !.status_message = <<"-- INSERT --">>]

\* enter_normal_mode without the assignment of the mode
enter_normal_mode_mode_kept(e) ==
    IF e.panicked THEN e ELSE
    clamp_cursor_col([e EXCEPT !.pending_op = "None",
                               !.count_buffer = <<>>, !.command_buffer = <<>>,
                               !.status_message = <<"-- NORMAL --">>])

enter_normal_mode(e) ==
    IF e.panicked THEN e ELSE
    clamp_cursor_col([e EXCEPT !.mode = "Normal", !.pending_op = "None",
                               !.count_buffer = <<>>, !.command_buffer = <<>>,
                               !.status_message = <<"-- NORMAL --">>])

enter_command_mode(e) ==
    IF e.panicked THEN e ELSE
    [e EXCEPT !.mode = "Command", !.pending_op = "None", !.count_buffer = <<>>,
              !.command_buffer = <<>>, !.status_message = <<":">>]

enter_visual_mode(e) ==
    IF e.panicked THEN e ELSE
    [e EXCEPT !.mode = "Visual", !.visual_start_row = e.cursor_row,
              !.visual_start_col = e.cursor_col, !.pending_op = "None",
              !.count_buffer = <<>>, !.status_message = <<"-- VISUAL --">>]

enter_visual_line_mode(e) ==
    IF e.panicked THEN e ELSE
    [e EXCEPT !.mode = "VisualLine", !.visual_start_row = e.cursor_row,
              !.visual_start_col = 0, !.pending_op = "None",
              !.count_buffer = <<>>, !.status_message = <<"-- VISUAL LINE --">>]

-----------------------------------------------------------------------------
(* TextEditor: edit commands *)

delete_char(e) ==
    IF e.panicked THEN e ELSE
    LET u == save_undo(e)
        line == get_current_line(u)
    IN IF ~RowOk(u) THEN Panic(u)
       ELSE IF u.cursor_col < char_count(line)
            THEN clamp_cursor_col(
                   [SetLine(u, remove_char_at(line, u.cursor_col)) EXCEPT
                      !.clipboard = << <<line[u.cursor_col + 1]>> >>,
                      !.clipboard_is_line = FALSE, !.modified = TRUE])
            ELSE u

delete_char_before(e) ==
    IF e.panicked THEN e ELSE
    IF e.cursor_col > 0
    THEN LET u == [save_undo(e) EXCEPT !.cursor_col = e.cursor_col - 1]
             line == get_current_line(u)
         IN IF ~RowOk(u) THEN Panic(u)
            ELSE IF u.cursor_col < Len(line)
                 THEN [SetLine(u, remove_char_at(line, u.cursor_col)) EXCEPT
                         !.clipboard = << <<line[u.cursor_col + 1]>> >>,
                         !.clipboard_is_line = FALSE, !.modified = TRUE]
                 ELSE [u EXCEPT !.modified = TRUE]
    ELSE e

delete_line(e) ==
    IF e.panicked THEN e ELSE
    LET u == save_undo(e)
    IN IF Len(u.lines) > 1
       THEN IF ~RowOk(u) THEN Panic(u)       \* Vec::remove out of range
            ELSE LET rest == RemoveAt(u.lines, u.cursor_row)
                 IN [u EXCEPT !.lines = rest,
                              !.clipboard = <<u.lines[u.cursor_row + 1]>>,
                              !.clipboard_is_line = TRUE,
                              !.cursor_row = IF u.cursor_row >= Len(rest)
                                             THEN Len(rest) - 1 ELSE u.cursor_row,
                              !.modified = TRUE]
       ELSE [u EXCEPT !.clipboard = <<u.lines[1]>>, !.clipboard_is_line = TRUE,
                      !.lines[1] = <<>>, !.cursor_col = 0, !.modified = TRUE]

yank_line(e) ==
    IF e.panicked THEN e ELSE
    [e EXCEPT !.clipboard = <<get_current_line(e)>>, !.clipboard_is_line = TRUE,
              !.status_message = <<"1 line yanked">>]

yank_lines(e, count) ==
    IF e.panicked THEN e ELSE
    LET end == Min(e.cursor_row + count, Len(e.lines))
    IN IF e.cursor_row > end THEN Panic(e)   \* slice start past its end
       ELSE LET taken == Slice(e.lines, e.cursor_row, end)
            IN [e EXCEPT !.clipboard = taken, !.clipboard_is_line = TRUE,
                         !.status_message = <<ToString(Len(taken)), " lines yanked">>]

yank_to_end(e) ==
    IF e.panicked THEN e ELSE
    LET chars == get_current_line(e)
    IN IF e.cursor_col > Len(chars) THEN Panic(e)   \* chars[cursor_col..]
       ELSE [e EXCEPT !.clipboard = <<SliceFrom(chars, e.cursor_col)>>,
                      !.clipboard_is_line = FALSE,
                      !.status_message = <<"Yanked to end of line">>]

delete_to_end(e) ==
    IF e.panicked THEN e ELSE
    LET u == save_undo(e)
        chars == get_current_line(u)
    IN IF ~RowOk(u) \/ u.cursor_col > Len(chars) THEN Panic(u)   \* chars[cursor_col..]
       ELSE clamp_cursor_col(
              [SetLine(u, SliceTo(chars, u.cursor_col)) EXCEPT
                 !.clipboard = <<SliceFrom(chars, u.cursor_col)>>,
                 !.clipboard_is_line = FALSE, !.modified = TRUE])

\* delete_lines without the empty line it puts back when no line is left
delete_lines_unfilled(e, count) ==
    IF e.panicked THEN e ELSE
    LET u == save_undo(e)
        end == Min(u.cursor_row + count, Len(u.lines))
    IN IF u.cursor_row > end THEN Panic(u)
       ELSE LET taken == Slice(u.lines, u.cursor_row, end)
                kept == Drain(u.lines, u.cursor_row, end)
            IN [u EXCEPT !.clipboard = taken, !.clipboard_is_line = TRUE,
                         !.lines = kept,
                         !.cursor_row = Min(u.cursor_row, saturating_sub(Len(kept), 1)),
                         !.cursor_col = 0, !.modified = TRUE,
                         !.status_message = <<ToString(Len(taken)), " lines deleted">>]

\* delete_lines without the clamp of the cursor row to the lines that are left
delete_lines_unclamped(e, count) ==
    IF e.panicked THEN e ELSE
    LET u == save_undo(e)
        end == Min(u.cursor_row + count, Len(u.lines))
    IN IF u.cursor_row > end THEN Panic(u)
       ELSE LET taken == Slice(u.lines, u.cursor_row, end)
                rest == Drain(u.lines, u.cursor_row, end)
                kept == IF rest = <<>> THEN << <<>> >> ELSE rest
            IN [u EXCEPT !.clipboard = taken, !.clipboard_is_line = TRUE,
                         !.lines = kept, !.cursor_col = 0, !.modified = TRUE,
                         !.status_message = <<ToString(Len(taken)), " lines deleted">>]

delete_lines(e, count) ==
    IF e.panicked THEN e ELSE
    LET u == save_undo(e)
        end == Min(u.cursor_row + count, Len(u.lines))
    IN IF u.cursor_row > end THEN Panic(u)   \* drain range start past its end
       ELSE LET taken == Slice(u.lines, u.cursor_row, end)
                rest == Drain(u.lines, u.cursor_row, end)
                kept == IF rest = <<>> THEN << <<>> >> ELSE rest
            IN [u EXCEPT !.clipboard = taken, !.clipboard_is_line = TRUE,
                         !.lines = kept,
                         !.cursor_row = Min(u.cursor_row, saturating_sub(Len(kept), 1)),
                         !.cursor_col = 0, !.modified = TRUE,
                         !.status_message = <<ToString(Len(taken)), " lines deleted">>]

\* the loop without .rev(): the lines of the register end up in reverse order
RECURSIVE Reversed(_)
Reversed(s) == IF s = <<>> THEN <<>> ELSE Append(Reversed(Tail(s)), Head(s))
InsertLines_unreversed(ls, at, added) ==
    SubSeq(ls, 1, at) \o Reversed(added) \o SubSeq(ls, at + 1, Len(ls))

\* for line in clipboard.iter().rev() { lines.insert(at, line) }
InsertLines(ls, at, added) == SubSeq(ls, 1, at) \o added \o SubSeq(ls, at + 1, Len(ls))

paste_after(e) ==
    IF e.panicked THEN e ELSE
    IF e.clipboard = <<>> THEN e
    ELSE LET u == save_undo(e)
         IN IF u.clipboard_is_line
            THEN IF u.cursor_row + 1 > Len(u.lines) THEN Panic(u)   \* Vec::insert
                 ELSE [u EXCEPT !.lines = InsertLines(u.lines, u.cursor_row + 1, u.clipboard),
                                !.cursor_row = u.cursor_row + 1, !.cursor_col = 0,
                                !.modified = TRUE]
            ELSE IF ~RowOk(u) THEN Panic(u)
                 ELSE LET text == join(u.clipboard, <<"\n">>)
                          col == u.cursor_col + 1
                          line == get_current_line(u)
                          at == char_to_byte_index(line, Min(col, char_count(line)))
                      IN [SetLine(u, SliceTo(line, at) \o text \o SliceFrom(line, at))
                            EXCEPT !.cursor_col = col + char_count(text) - 1,
                                   !.modified = TRUE]

paste_before(e) ==
    IF e.panicked THEN e ELSE
    IF e.clipboard = <<>> THEN e
    ELSE LET u == save_undo(e)
         IN IF u.clipboard_is_line
            THEN IF u.cursor_row > Len(u.lines) THEN Panic(u)       \* Vec::insert
                 ELSE [u EXCEPT !.lines = InsertLines(u.lines, u.cursor_row, u.clipboard),
                                !.cursor_col = 0, !.modified = TRUE]
            ELSE IF ~RowOk(u) THEN Panic(u)
                 ELSE LET text == join(u.clipboard, <<"\n">>)
                          line == get_current_line(u)
                          at == char_to_byte_index(line, u.cursor_col)
                      IN [SetLine(u, SliceTo(line, at) \o text \o SliceFrom(line, at))
                            EXCEPT !.cursor_col = u.cursor_col + char_count(text),
                                   !.modified = TRUE]

replace_char(e, c) ==
    IF e.panicked THEN e ELSE
    LET u == save_undo(e)
        line == get_current_line(u)
    IN IF ~RowOk(u) THEN Panic(u)
       ELSE IF u.cursor_col < char_count(line)
            THEN [SetLine(u, insert_char_at(remove_char_at(line, u.cursor_col),
                                            u.cursor_col, c))
                    EXCEPT !.modified = TRUE]
            ELSE u

substitute_char(e) == enter_insert_mode(delete_char(save_undo(e)))

substitute_line(e) ==
    IF e.panicked THEN e ELSE
    LET u == save_undo(e)
    IN IF ~RowOk(u) THEN Panic(u)
       ELSE enter_insert_mode(
              [SetLine(u, <<>>) EXCEPT !.clipboard = <<get_current_line(u)>>,
                                       !.clipboard_is_line = TRUE,
                                       !.cursor_col = 0, !.modified = TRUE])

change_to_end(e) ==
    IF e.panicked THEN e ELSE
    LET u == save_undo(e)
        chars == get_current_line(u)
    IN IF ~RowOk(u) \/ u.cursor_col > Len(chars) THEN Panic(u)   \* chars[cursor_col..]
       ELSE enter_insert_mode(
              [SetLine(u, SliceTo(chars, u.cursor_col)) EXCEPT
                 !.clipboard = <<SliceFrom(chars, u.cursor_col)>>,
                 !.clipboard_is_line = FALSE, !.modified = TRUE])

\* str::trim_start
RECURSIVE trim_start(_)
trim_start(s) ==
    IF s # <<>> /\ is_whitespace(Head(s)) THEN trim_start(Tail(s)) ELSE s

join_lines(e) ==
    IF e.panicked THEN e ELSE
    IF e.cursor_row < Len(e.lines) - 1
    THEN LET u == save_undo(e)
             current == u.lines[u.cursor_row + 1]
             trimmed == trim_start(u.lines[u.cursor_row + 2])
             glue == IF current # <<>> /\ trimmed # <<>> THEN <<" ">> ELSE <<>>
         IN [u EXCEPT !.lines = ReplaceAt(RemoveAt(u.lines, u.cursor_row + 1),
                                          u.cursor_row, current \o glue \o trimmed),
                      !.cursor_col = char_count(current), !.modified = TRUE]
    ELSE e

Spaces(n) == [i \in 1..n |-> " "]

indent_line(e) ==
    IF e.panicked THEN e ELSE
    LET u == save_undo(e)
    IN IF ~RowOk(u) THEN Panic(u)
       ELSE [SetLine(u, Spaces(IndentWidth) \o get_current_line(u)) EXCEPT
               !.cursor_col = u.cursor_col + IndentWidth, !.modified = TRUE]

\* while removed < limit && line.starts_with(' ') { line.remove(0); removed += 1 }
RECURSIVE LeadingSpaces(_, _)
LeadingSpaces(s, limit) ==
    IF limit > 0 /\ s # <<>> /\ Head(s) = " "
    THEN 1 + LeadingSpaces(Tail(s), limit - 1) ELSE 0

outdent_line(e) ==
    IF e.panicked THEN e ELSE
    LET u == save_undo(e)
        line == get_current_line(u)
        removed == LeadingSpaces(line, IndentWidth)
    IN IF ~RowOk(u) THEN Panic(u)
       ELSE IF removed > 0
            THEN [SetLine(u, SliceFrom(line, removed)) EXCEPT
                    !.cursor_col = saturating_sub(u.cursor_col, removed),
                    !.modified = TRUE]
            ELSE u

delete_word(e) ==
    IF e.panicked THEN e ELSE
    LET u == save_undo(e)
        start_col == u.cursor_col
        m == move_word_forward(u)
        end_col == m.cursor_col
        chars == get_current_line(m)
    IN IF m.cursor_row = u.cursor_row /\ end_col > start_col
       THEN IF ~RowOk(m) \/ end_col > Len(chars) THEN Panic(m)
            ELSE [SetLine(m, SliceTo(chars, start_col) \o SliceFrom(chars, end_col))
                    EXCEPT !.clipboard = <<Slice(chars, start_col, end_col)>>,
                           !.clipboard_is_line = FALSE,
                           !.cursor_col = start_col, !.modified = TRUE]
       ELSE m

-----------------------------------------------------------------------------
(* TextEditor: search *)

MatchAt(s, pat, i) == i + Len(pat) <= Len(s) /\ Slice(s, i, i + Len(pat)) = pat

\* s[from..].find(pat), as an index into s; -1 for None
find(s, pat, from) ==
    IF \E i \in from..Len(s) : MatchAt(s, pat, i)
    THEN CHOOSE i \in from..Len(s) :
           MatchAt(s, pat, i) /\ \A j \in from..(i - 1) : ~MatchAt(s, pat, j)
    ELSE -1

\* s[from..to].rfind(pat), as an index into s; -1 for None
rfind(s, pat, from, to) ==
    IF \E i \in from..to : i + Len(pat) <= to /\ MatchAt(s, pat, i)
    THEN CHOOSE i \in from..to :
           /\ i + Len(pat) <= to /\ MatchAt(s, pat, i)
           /\ \A j \in (i + 1)..to : ~(j + Len(pat) <= to /\ MatchAt(s, pat, j))
    ELSE -1

\* The first row of rows (in that order) whose line has a match, with the match.
RECURSIVE FirstHit(_, _)
FirstHit(rows, hitOf) ==
    IF rows = <<>> THEN <<>>
    ELSE IF hitOf[Head(rows)] # -1 THEN <<Head(rows), hitOf[Head(rows)]>>
    ELSE FirstHit(Tail(rows), hitOf)

Ascending(a, b) == [i \in 1..(b - a + 1) |-> a + i - 1]
Descending(a, b) == [i \in 1..(b - a + 1) |-> b - i + 1]

start_search_forward(e) ==
    IF e.panicked THEN e ELSE
    [e EXCEPT !.mode = "Command", !.search_direction = TRUE,
              !.command_buffer = <<>>, !.status_message = <<"/">>]

start_search_backward(e) ==
    IF e.panicked THEN e ELSE
    [e EXCEPT !.mode = "Command", !.search_direction = FALSE,
              !.command_buffer = <<>>, !.status_message = <<"?">>]

search_next(e) ==
    IF e.panicked THEN e ELSE
    IF e.search_pattern = <<>>
    THEN [e EXCEPT !.status_message = <<"No search pattern">>]
    ELSE
    LET pat == e.search_pattern
        start_row == e.cursor_row
        start_col == e.cursor_col + 1
        n == Len(e.lines)
        ahead == [row \in 0..(n - 1) |->
                    LET line == e.lines[row + 1]
                    IN find(line, pat,
                            IF row = start_row
                            THEN char_to_byte_index(line, Min(start_col, char_count(line)))
                            ELSE 0)]
        hit1 == FirstHit(Ascending(start_row, n - 1), ahead)
        last == Min(start_row, n - 1)
        wrapped == [row \in 0..last |->
                      LET line == e.lines[row + 1]
                          search_end == IF row = start_row
                                        THEN char_to_byte_index(line, e.cursor_col)
                                        ELSE Len(line)
                      IN find(SliceTo(line, search_end), pat, 0)]
        hit2 == FirstHit(Ascending(0, last), wrapped)
    IN IF hit1 # <<>>
       THEN [e EXCEPT !.cursor_row = hit1[1], !.cursor_col = hit1[2],
                      !.status_message = <<"/">> \o pat]
       ELSE IF hit2 # <<>>
       THEN [e EXCEPT !.cursor_row = hit2[1], !.cursor_col = hit2[2],
                      !.status_message = <<"/">> \o pat \o <<" (wrapped)">>]
       ELSE IF ~RowOk(e) THEN Panic(e)       \* lines[start_row] in the wrap-around loop
       ELSE [e EXCEPT !.status_message = <<"Pattern not found: ">> \o pat]

search_prev(e) ==
    IF e.panicked THEN e ELSE
    IF e.search_pattern = <<>>
    THEN [e EXCEPT !.status_message = <<"No search pattern">>]
    ELSE IF ~RowOk(e) THEN Panic(e)          \* lines[row] in the backward loop
    ELSE
    LET pat == e.search_pattern
        start_row == e.cursor_row
        start_col == e.cursor_col
        n == Len(e.lines)
        behind == [row \in 0..start_row |->
                     LET line == e.lines[row + 1]
                         search_end == IF row = start_row
                                       THEN char_to_byte_index(line, start_col)
                                       ELSE Len(line)
                     IN rfind(line, pat, 0, search_end)]
        hit1 == FirstHit(Descending(0, start_row), behind)
        wrapped == [row \in start_row..(n - 1) |->
                      LET line == e.lines[row + 1]
                          search_start == IF row = start_row
                                          THEN char_to_byte_index(line, start_col + 1)
                                          ELSE 0
                      IN IF search_start < Len(line)
                         THEN rfind(line, pat, search_start, Len(line)) ELSE -1]
        hit2 == FirstHit(Descending(start_row, n - 1), wrapped)
    IN IF hit1 # <<>>
       THEN [e EXCEPT !.cursor_row = hit1[1], !.cursor_col = hit1[2],
                      !.status_message = <<"?">> \o pat]
       ELSE IF hit2 # <<>>
       THEN [e EXCEPT !.cursor_row = hit2[1], !.cursor_col = hit2[2],
                      !.status_message = <<"?">> \o pat \o <<" (wrapped)">>]
       ELSE [e EXCEPT !.status_message = <<"Pattern not found: ">> \o pat]

execute_search(e) ==
    IF e.panicked THEN e ELSE
    IF e.command_buffer = <<>> THEN enter_normal_mode(e)
    ELSE LET s == [e EXCEPT !.search_pattern = e.command_buffer,
                            !.last_search_row = e.cursor_row,
                            !.last_search_col = e.cursor_col]
         IN enter_normal_mode(IF s.search_direction THEN search_next(s)
                              ELSE search_prev(s))

search_word_under_cursor(e) ==
    IF e.panicked THEN e ELSE
    LET chars == get_current_line(e)
    IN IF e.cursor_col >= Len(chars) THEN e
       ELSE LET start == SkipBackBefore(chars, e.cursor_col, "word")
                end == SkipForward(chars, e.cursor_col, "word")
            IN IF start < end
               THEN search_next([e EXCEPT !.search_pattern = Slice(chars, start, end),
                                          !.search_direction = TRUE])
               ELSE e

-----------------------------------------------------------------------------
(* TextEditor: Insert mode commands *)

insert_char(e, c) ==
    IF e.panicked THEN e ELSE
    IF ~RowOk(e) THEN Panic(e)
    ELSE [SetLine(e, insert_char_at(get_current_line(e), e.cursor_col, c)) EXCEPT
            !.cursor_col = e.cursor_col + 1, !.modified = TRUE]

\* split_off_at_char: what stays in the line, and what is split off
split_keep(s, char_idx) == SliceTo(s, char_to_byte_index(s, char_idx))
split_off_at_char(s, char_idx) == SliceFrom(s, char_to_byte_index(s, char_idx))

insert_newline(e) ==
    IF e.panicked THEN e ELSE
    IF ~RowOk(e) THEN Panic(e)
    ELSE LET line == get_current_line(e)
         IN [e EXCEPT !.lines = InsertAt(ReplaceAt(e.lines, e.cursor_row,
                                                   split_keep(line, e.cursor_col)),
                                         e.cursor_row + 1,
                                         split_off_at_char(line, e.cursor_col)),
                      !.cursor_row = e.cursor_row + 1, !.cursor_col = 0,
                      !.modified = TRUE]

backspace(e) ==
    IF e.panicked THEN e ELSE
    IF e.cursor_col > 0
    THEN IF ~RowOk(e) THEN Panic(e)
         ELSE [SetLine(e, remove_char_at(get_current_line(e), e.cursor_col - 1)) EXCEPT
                 !.cursor_col = e.cursor_col - 1, !.modified = TRUE]
    ELSE IF e.cursor_row > 0
         THEN IF ~RowOk(e) THEN Panic(e)     \* Vec::remove out of range
              ELSE LET prev == e.lines[e.cursor_row]
                   IN [e EXCEPT !.lines = ReplaceAt(RemoveAt(e.lines, e.cursor_row),
                                                    e.cursor_row - 1,
                                                    prev \o get_current_line(e)),
                                !.cursor_row = e.cursor_row - 1,
                                !.cursor_col = char_count(prev), !.modified = TRUE]
         ELSE e

-----------------------------------------------------------------------------
(* TextEditor: visual selection *)

\* get_visual_selection: <<start_row, start_col, end_row, end_col>>, or <<>> when
\* it panics (VisualLine indexes lines[end_row])
get_visual_selection(e) ==
    LET cursorFirst == \/ e.cursor_row < e.visual_start_row
                       \/ /\ e.cursor_row = e.visual_start_row
                          /\ e.cursor_col < e.visual_start_col
        sr == IF cursorFirst THEN e.cursor_row ELSE e.visual_start_row
        sc == IF cursorFirst THEN e.cursor_col ELSE e.visual_start_col
        er == IF cursorFirst THEN e.visual_start_row ELSE e.cursor_row
        ec == IF cursorFirst THEN e.visual_start_col ELSE e.cursor_col
    IN IF e.mode = "VisualLine"
       THEN (IF er >= Len(e.lines) THEN <<>>
             ELSE <<sr, 0, er, char_count(e.lines[er + 1])>>)
       ELSE <<sr, sc, er, ec>>

\* chars[a..=b] is in range
InclusiveOk(chars, a, b) == b + 1 <= Len(chars) /\ a <= b + 1

\* The text of a character-wise selection as the register holds it, or <<>> when
\* one of its slices is out of range.
SelectedText(e, sel) ==
    LET sr == sel[1]  sc == sel[2]  er == sel[3]  ec == sel[4]
    IN IF er >= Len(e.lines) THEN <<>>
       ELSE IF sr = er
       THEN LET chars == e.lines[sr + 1]
                last == Min(ec, saturating_sub(Len(chars), 1))
            IN IF ~InclusiveOk(chars, sc, last) THEN <<>>
               ELSE <<Slice(chars, sc, last + 1)>>
       ELSE LET first_chars == e.lines[sr + 1]
                last_chars == e.lines[er + 1]
                last == Min(ec, saturating_sub(Len(last_chars), 1))
            IN IF sc > Len(first_chars) \/ ~InclusiveOk(last_chars, 0, last) THEN <<>>
               ELSE <<SliceFrom(first_chars, sc)>>
                    \o Slice(e.lines, sr + 1, er)
                    \o <<Slice(last_chars, 0, last + 1)>>

\* the loop over (sr + 1)..er, which leaves the last line of the selection
RECURSIVE RemoveMiddle_exclusive(_, _, _)
RemoveMiddle_exclusive(ls, sr, times) ==
    IF times <= 1 THEN ls
    ELSE RemoveMiddle_exclusive(IF sr + 1 < Len(ls) THEN RemoveAt(ls, sr + 1) ELSE ls,
                                sr, times - 1)

\* for _ in (sr + 1)..=er { if sr + 1 < lines.len() { lines.remove(sr + 1) } }
RECURSIVE RemoveMiddle(_, _, _)
RemoveMiddle(ls, sr, times) ==
    IF times = 0 THEN ls
    ELSE RemoveMiddle(IF sr + 1 < Len(ls) THEN RemoveAt(ls, sr + 1) ELSE ls,
                      sr, times - 1)

delete_visual_selection(e) ==
    IF e.panicked THEN e ELSE
    LET u == save_undo(e)
        sel == get_visual_selection(u)
    IN IF sel = <<>> THEN Panic(u)
       ELSE
       LET sr == sel[1]  sc == sel[2]  er == sel[3]  ec == sel[4]
           text == SelectedText(u, sel)
           cut ==
             IF u.mode = "VisualLine"
             THEN LET rest == Drain(u.lines, sr, er + 1)
                  IN [u EXCEPT !.clipboard = Slice(u.lines, sr, er + 1),
                               !.clipboard_is_line = TRUE,
                               !.lines = IF rest = <<>> THEN << <<>> >> ELSE rest]
             ELSE IF text = <<>> THEN Panic(u)
             ELSE IF sr = er
             THEN LET chars == u.lines[sr + 1]
                  IN [u EXCEPT !.clipboard = text, !.clipboard_is_line = FALSE,
                               !.lines[sr + 1] =
                                  SliceTo(chars, sc)
                                  \o SliceFrom(chars, Min(ec + 1, Len(chars)))]
             ELSE LET first_chars == u.lines[sr + 1]
                      last_chars == u.lines[er + 1]
                      remaining == SliceFrom(last_chars, Min(ec + 1, Len(last_chars)))
                  IN [u EXCEPT !.clipboard = text, !.clipboard_is_line = FALSE,
                               !.lines = RemoveMiddle(
                                           ReplaceAt(u.lines, sr,
                                                     SliceTo(first_chars, sc) \o remaining),
                                           sr, er - sr)]
       IN IF cut.panicked THEN cut
          ELSE enter_normal_mode(
                 [cut EXCEPT !.cursor_row = Min(sr, saturating_sub(Len(cut.lines), 1)),
                             !.cursor_col = sc, !.modified = TRUE])

yank_visual_selection(e) ==
    IF e.panicked THEN e ELSE
    LET sel == get_visual_selection(e)
    IN IF sel = <<>> THEN Panic(e)
       ELSE
       LET sr == sel[1]  sc == sel[2]  er == sel[3]
           text == SelectedText(e, sel)
           y == IF e.mode = "VisualLine"
                THEN [e EXCEPT !.clipboard = Slice(e.lines, sr, er + 1),
                               !.clipboard_is_line = TRUE,
                               !.status_message =
                                  <<ToString(er + 1 - sr), " lines yanked">>]
                ELSE IF text = <<>> THEN Panic(e)
                ELSE [e EXCEPT !.clipboard = text, !.clipboard_is_line = FALSE,
                               !.status_message = <<"Yanked">>]
       IN IF y.panicked THEN y
          ELSE enter_normal_mode([y EXCEPT !.cursor_row = sr, !.cursor_col = sc])

\* The status text starts with character c.
starts_with(msg, c) == msg # <<>> /\ msg[1] = c

CommandStatus(e) ==
    IF starts_with(e.status_message, "/") \/ starts_with(e.status_message, "?")
    THEN <<e.status_message[1]>> \o e.command_buffer
    ELSE <<":">> \o e.command_buffer

append_command_char(e, c) ==
    IF e.panicked THEN e ELSE
    LET a == [e EXCEPT !.command_buffer = Append(e.command_buffer, c)]
    IN [a EXCEPT !.status_message = CommandStatus(a)]

backspace_command(e) ==
    IF e.panicked THEN e ELSE
    LET b == [e EXCEPT !.command_buffer =
                  IF e.command_buffer = <<>> THEN <<>>
                  ELSE SubSeq(e.command_buffer, 1, Len(e.command_buffer) - 1)]
    IN [b EXCEPT !.status_message = CommandStatus(b)]

\* The case toggle of ~ : upper case for a lower-case character, else lower case.
toggled_char(c) == IF is_lowercase(c) THEN to_uppercase(c) ELSE to_lowercase(c)

toggle_case(e) ==
    IF e.panicked THEN e ELSE
    LET u == save_undo(e)
        chars == get_current_line(u)
        col == u.cursor_col
    IN IF ~RowOk(u) THEN Panic(u)
       ELSE IF col < Len(chars)
            THEN [SetLine(u, ReplaceAt(chars, col, toggled_char(chars[col + 1]))) EXCEPT
                    !.cursor_col = Min(col + 1, saturating_sub(char_count(chars), 1)),
                    !.modified = TRUE]
            ELSE u

-----------------------------------------------------------------------------
(* Keys.  KeyCode::Char(c) is the one-character string c; the other key    *)
(* codes are the names below.                                              *)

SpecialKeys == {"Esc", "Enter", "Backspace", "Delete", "Left", "Right", "Up",
                "Down", "Home", "End", "PageUp", "PageDown", "Tab"}
IsChar(k) == k \notin SpecialKeys

\* One pass of the body of a `for _ in 0..count` loop, by the name of its method.
LoopBody(name, e) ==
    CASE name = "move_cursor_left" -> move_cursor_left(e)
      [] name = "move_cursor_down" -> move_cursor_down(e)
      [] name = "move_cursor_up" -> move_cursor_up(e)
      [] name = "move_cursor_right" -> move_cursor_right(e)
      [] name = "move_word_forward" -> move_word_forward(e)
      [] name = "move_word_backward" -> move_word_backward(e)
      [] name = "move_word_end" -> move_word_end(e)
      [] name = "delete_char" -> delete_char(e)
      [] name = "delete_char_before" -> delete_char_before(e)
      [] name = "join_lines" -> join_lines(e)
      [] name = "toggle_case" -> toggle_case(e)
      [] name = "search_next" -> search_next(e)
      [] name = "search_prev" -> search_prev(e)
      [] name = "indent_line" -> indent_line(e)
      [] name = "outdent_line" -> outdent_line(e)
      [] name = "delete_word" -> delete_word(e)

\* count passes of the loop.  A pass that changes nothing ends it: the passes
\* after it would change nothing either.
RECURSIVE Repeat(_, _, _)
Repeat(name, count, e) ==
    IF count = 0 \/ e.panicked THEN e
    ELSE LET pass == LoopBody(name, e)
         IN IF pass = e THEN e ELSE Repeat(name, count - 1, pass)

-----------------------------------------------------------------------------
(* events/viewer.rs: leaving the editor and saving *)

exit_editor(e) == IF e.panicked THEN e ELSE [e EXCEPT !.viewer_editing = FALSE]

\* save_file returns true: there is a path and fs::write succeeds (io)
save_ok(e, io) == e.file_path = "Some" /\ io
\* save_file that clears the modified flag whatever the write does
save_file_marks_saved(e, io) ==
    IF e.panicked THEN e ELSE
    IF e.file_path = "Some"
    THEN (IF io THEN [e EXCEPT !.modified = FALSE, !.disk = get_content(e)]
          ELSE [e EXCEPT !.modified = FALSE])
    ELSE [e EXCEPT !.modified = FALSE, !.status_message = <<"Error: No file path">>]

save_file(e, io) ==
    IF e.panicked THEN e ELSE
    IF e.file_path = "Some"
    THEN (IF io THEN [e EXCEPT !.modified = FALSE, !.disk = get_content(e)] ELSE e)
    ELSE [e EXCEPT !.status_message = <<"Error: No file path">>]

-----------------------------------------------------------------------------
(* events/editor.rs: Visual mode *)

\* The line-wise loops of the visual > and < operations.
IndentRows(ls, sr, er) ==
    [i \in 1..Len(ls) |->
        IF sr + 1 <= i /\ i <= er + 1 THEN Spaces(IndentWidth) \o ls[i] ELSE ls[i]]
OutdentRows(ls, sr, er) ==
    [i \in 1..Len(ls) |->
        IF sr + 1 <= i /\ i <= er + 1
        THEN SliceFrom(ls[i], LeadingSpaces(ls[i], IndentWidth)) ELSE ls[i]]

CaseOf(k, c) ==
    CASE k = "~" -> toggled_char(c)
      [] k = "u" -> to_lowercase(c)
      [] k = "U" -> to_uppercase(c)
      [] OTHER -> c

CaseRows(ls, sel, k) ==
    [i \in 1..Len(ls) |->
        LET row == i - 1
            start == IF row = sel[1] THEN sel[2] ELSE 0
            end == IF row = sel[3] THEN sel[4] + 1 ELSE Len(ls[i])
        IN IF sel[1] <= row /\ row <= sel[3]
           THEN [j \in 1..Len(ls[i]) |->
                   IF j - 1 >= start /\ j - 1 < end THEN CaseOf(k, ls[i][j]) ELSE ls[i][j]]
           ELSE ls[i]]

handle_visual_mode_keys(e, k) ==
    IF e.panicked THEN e ELSE
    LET sel == get_visual_selection(e)
        \* the operations that index lines[row] for row in sr..=er
        rowsOk == sel # <<>> /\ (sel[1] > sel[3] \/ sel[3] < Len(e.lines))
    IN CASE k \in {"Esc", "v", "V"} -> enter_normal_mode(e)
         [] k \in {"h", "Left"} -> move_cursor_left(e)
         [] k \in {"j", "Down"} -> move_cursor_down(e)
         [] k \in {"k", "Up"} -> move_cursor_up(e)
         [] k \in {"l", "Right"} -> move_cursor_right(e)
         [] k = "w" -> move_word_forward(e)
         [] k = "b" -> move_word_backward(e)
         [] k = "e" -> move_word_end(e)
         [] k \in {"0", "Home"} -> move_to_line_start(e)
         [] k \in {"$", "End"} -> move_to_line_end(e)
         [] k = "^" -> move_to_first_nonblank(e)
         [] k = "G" -> move_to_last_line(e)
         [] k = "g" -> move_to_first_line(e)
         [] k \in {"d", "x"} -> delete_visual_selection(e)
         [] k = "y" -> yank_visual_selection(e)
         [] k \in {"c", "s"} -> enter_insert_mode(delete_visual_selection(e))
         [] k = ">" ->
              IF ~rowsOk THEN Panic(e)
              ELSE LET u == save_undo(e)
                   IN enter_normal_mode(
                        [u EXCEPT !.lines = IndentRows(u.lines, sel[1], sel[3]),
                                  !.modified = TRUE])
         [] k = "<" ->
              IF ~rowsOk THEN Panic(e)
              ELSE LET u == save_undo(e)
                   IN enter_normal_mode(
                        [u EXCEPT !.lines = OutdentRows(u.lines, sel[1], sel[3]),
                                  !.modified = TRUE])
         [] k \in {"~", "u", "U"} ->
              IF ~rowsOk THEN Panic(e)
              ELSE LET u == save_undo(e)
                   IN enter_normal_mode(
                        [u EXCEPT !.lines = CaseRows(u.lines, sel, k),
                                  !.modified = TRUE])
         [] k = "J" ->
              IF sel = <<>> THEN Panic(e)
              ELSE enter_normal_mode(
                     Repeat("join_lines", sel[3] - sel[1],
                            [e EXCEPT !.cursor_row = sel[1]]))
         [] OTHER -> e

-----------------------------------------------------------------------------
(* events/editor.rs: Normal mode *)

\* The arms of the pending-operator match that complete an operator.
Completes(op, k) ==
    \/ op = "Delete" /\ k \in {"d", "$", "w", "G", "g"}
    \/ op = "Yank" /\ k \in {"y", "$"}
    \/ op = "Change" /\ k \in {"c", "$"}
    \/ op = "Indent" /\ k = ">"
    \/ op = "Outdent" /\ k = "<"

\* dG: the lines from the cursor row to the end go to the register
delete_to_last_line(e) ==
    LET start == e.cursor_row
        end == Len(e.lines)
    IN IF start > end THEN Panic(e)          \* drain range start past its end
       ELSE LET rest == Drain(e.lines, start, end)
                kept == IF rest = <<>> THEN << <<>> >> ELSE rest
            IN [e EXCEPT !.clipboard = Slice(e.lines, start, end),
                         !.clipboard_is_line = TRUE, !.lines = kept,
                         !.cursor_row = Min(e.cursor_row, saturating_sub(Len(kept), 1)),
                         !.modified = TRUE, !.pending_op = "None"]

\* dgg: the lines from the first to the cursor row go to the register
delete_to_first_line(e) ==
    LET end == e.cursor_row + 1
    IN IF end > Len(e.lines) THEN Panic(e)   \* drain range end out of range
       ELSE LET rest == Drain(e.lines, 0, end)
            IN [e EXCEPT !.clipboard = Slice(e.lines, 0, end),
                         !.clipboard_is_line = TRUE,
                         !.lines = IF rest = <<>> THEN << <<>> >> ELSE rest,
                         !.cursor_row = 0, !.cursor_col = 0,
                         !.modified = TRUE, !.pending_op = "None"]

\* The method the arm for (op, k) calls count times, for the arms with a loop.
operator_loop(op, k) ==
    CASE op = "Indent" /\ k = ">" -> "indent_line"
      [] op = "Outdent" /\ k = "<" -> "outdent_line"
      [] op = "Delete" /\ k = "w" -> "delete_word"
      [] OTHER -> "none"

\* The arm of the pending-operator match for (op, k), with the count read.
complete_operator(e, k, count) ==
    LET op == e.pending_op
        done(r) == IF r.panicked THEN r ELSE [r EXCEPT !.pending_op = "None"]
    IN CASE operator_loop(op, k) # "none" -> done(Repeat(operator_loop(op, k), count, e))
         [] op = "Delete" /\ k = "d" -> done(delete_lines(e, count))
         [] op = "Yank" /\ k = "y" -> done(yank_lines(e, count))
         [] op = "Change" /\ k = "c" -> done(substitute_line(e))
         [] op = "Delete" /\ k = "$" -> done(delete_to_end(e))
         [] op = "Yank" /\ k = "$" -> done(yank_to_end(e))
         [] op = "Change" /\ k = "$" -> done(change_to_end(e))
         [] op = "Delete" /\ k = "G" -> delete_to_last_line(e)
         [] op = "Delete" /\ k = "g" -> delete_to_first_line(e)

\* The method the arm for key k calls count times, for the arms with a loop.
key_loop(k) ==
    CASE k \in {"h", "Left"} -> "move_cursor_left"
      [] k \in {"j", "Down"} -> "move_cursor_down"
      [] k \in {"k", "Up"} -> "move_cursor_up"
      [] k \in {"l", "Right"} -> "move_cursor_right"
      [] k = "w" -> "move_word_forward"
      [] k = "b" -> "move_word_backward"
      [] k = "e" -> "move_word_end"
      [] k = "x" -> "delete_char"
      [] k = "X" -> "delete_char_before"
      [] k = "J" -> "join_lines"
      [] k = "~" -> "toggle_case"
      [] k = "n" -> "search_next"
      [] k = "N" -> "search_prev"
      [] OTHER -> "none"

\* The match on the key once no operator is pending, with the count read.
normal_command(e, k, count) ==
    CASE key_loop(k) # "none" -> Repeat(key_loop(k), count, e)
      [] k = "0" -> move_to_line_start(e)
      [] k = "^" -> move_to_first_nonblank(e)
      [] k \in {"$", "End"} -> move_to_line_end(e)
      [] k = "Home" -> move_to_line_start(e)
      [] k = "g" ->
           IF count > 1 THEN move_to_line(e, count)
           ELSE move_to_first_line([e EXCEPT !.pending_op = "Delete",
                                             !.status_message = <<"g">>])
      [] k = "G" -> IF count > 1 THEN move_to_line(e, count) ELSE move_to_last_line(e)
      [] k = "%" -> move_to_matching_bracket(e)
      [] k = "d" -> [e EXCEPT !.pending_op = "Delete", !.status_message = <<"d">>]
      [] k = "D" -> delete_to_end(e)
      [] k = "y" -> [e EXCEPT !.pending_op = "Yank", !.status_message = <<"y">>]
      [] k = "Y" -> yank_line(e)
      [] k = "c" -> [e EXCEPT !.pending_op = "Change", !.status_message = <<"c">>]
      [] k = "C" -> change_to_end(e)
      [] k = "p" -> paste_after(e)
      [] k = "P" -> paste_before(e)
      [] k = "r" -> [e EXCEPT !.status_message = <<"r">>, !.mode = "Command",
                              !.command_buffer = <<"r">>]
      [] k = "s" -> substitute_char(e)
      [] k = "S" -> substitute_line(e)
      [] k = "u" -> undo(e)
      [] k = ">" -> [e EXCEPT !.pending_op = "Indent", !.status_message = <<">">>]
      [] k = "<" -> [e EXCEPT !.pending_op = "Outdent", !.status_message = <<"<">>]
      [] k = "/" -> start_search_forward(e)
      [] k = "?" -> start_search_backward(e)
      [] k = "*" -> search_word_under_cursor(e)
      [] k = "v" -> enter_visual_mode(e)
      [] k = "V" -> enter_visual_line_mode(e)
      [] k = "i" -> enter_insert_mode(e)
      [] k = "I" -> enter_insert_mode(move_to_first_nonblank(e))
      [] k = "a" -> enter_insert_mode(move_cursor_right(e))
      [] k = "A" ->
           enter_insert_mode([move_to_line_end(e) EXCEPT
                                !.cursor_col = char_count(get_current_line(e))])
      [] k = "o" -> enter_insert_mode(insert_newline(move_to_line_end(save_undo(e))))
      [] k = "O" ->
           LET u == save_undo(e)
           IN IF u.cursor_row > Len(u.lines) THEN Panic(u)          \* Vec::insert
              ELSE enter_insert_mode(
                     [u EXCEPT !.lines = InsertAt(u.lines, u.cursor_row, <<>>),
                               !.cursor_col = 0, !.modified = TRUE])
      [] k = ":" -> enter_command_mode(e)
      [] k = "Esc" -> [e EXCEPT !.pending_op = "None", !.count_buffer = <<>>,
                                !.status_message = <<"-- NORMAL --">>]
      [] OTHER -> e

handle_normal_mode_keys(e, k) ==
    IF e.panicked THEN e ELSE
    IF k \in Digits /\ (k # "0" \/ e.count_buffer # <<>>)
    THEN [e EXCEPT !.count_buffer = Append(e.count_buffer, k),
                   !.status_message = Append(e.count_buffer, k)]
    ELSE IF e.pending_op # "None" /\ Completes(e.pending_op, k)
    THEN complete_operator(get_count(e), k, count_of(e))
    ELSE LET \* an operator that k does not complete is dropped, and its count read
             f == IF e.pending_op # "None"
                  THEN [get_count(e) EXCEPT !.pending_op = "None"] ELSE e
         IN IF f.panicked THEN f ELSE normal_command(get_count(f), k, count_of(f))

-----------------------------------------------------------------------------
(* events/editor.rs: Insert mode and the Nano style *)

\* cursor_col = char_count(current line): the End key of Insert and Nano
cursor_to_line_len(e) ==
    IF e.panicked THEN e
    ELSE [e EXCEPT !.cursor_col = char_count(get_current_line(e))]

\* The four insert_char(' ') of the Tab key.
RECURSIVE insert_spaces(_, _)
insert_spaces(e, n) == IF n = 0 THEN e ELSE insert_spaces(insert_char(e, " "), n - 1)

handle_insert_mode_keys(e, k) ==
    IF e.panicked THEN e ELSE
    CASE k = "Esc" -> enter_normal_mode(e)
      [] k = "Enter" -> insert_newline(e)
      [] k = "Backspace" -> backspace(e)
      [] k = "Delete" -> delete_char(e)
      [] k = "Tab" -> insert_spaces(e, IndentWidth)
      [] k = "Left" -> move_cursor_left(e)
      [] k = "Right" -> move_cursor_right(e)
      [] k = "Up" -> move_cursor_up(e)
      [] k = "Down" -> move_cursor_down(e)
      [] k = "Home" -> move_to_line_start(e)
      [] k = "End" -> cursor_to_line_len(e)
      [] IsChar(k) -> insert_char(e, k)
      [] OTHER -> e

\* The keys of the Nano style while its search prompt is open.
nano_search_keys(e, k) ==
    CASE k = "Esc" -> [e EXCEPT !.nano_search_mode = FALSE, !.command_buffer = <<>>,
                                !.status_message = <<"Search cancelled">>]
      [] k = "Enter" -> search_next([e EXCEPT !.search_pattern = e.command_buffer,
                                              !.nano_search_mode = FALSE,
                                              !.command_buffer = <<>>])
      [] k = "Backspace" ->
           LET b == IF e.command_buffer = <<>> THEN <<>>
                    ELSE SubSeq(e.command_buffer, 1, Len(e.command_buffer) - 1)
           IN [e EXCEPT !.command_buffer = b, !.status_message = <<"Search: ">> \o b]
      [] IsChar(k) ->
           [e EXCEPT !.command_buffer = Append(e.command_buffer, k),
                     !.status_message = <<"Search: ">> \o Append(e.command_buffer, k)]
      [] OTHER -> e

\* The Ctrl shortcuts of the Nano style.
nano_ctrl_keys(e, k, io) ==
    LET c == to_lowercase(k)
    IN CASE c = "x" ->
              IF e.modified
              THEN [e EXCEPT !.status_message =
                      <<"Modified! Save first (^O) or use ESC to exit without saving">>]
              ELSE exit_editor(e)
         [] c = "o" ->
              [save_file(e, io) EXCEPT !.status_message =
                 IF save_ok(e, io) THEN <<"File saved">> ELSE <<"Error saving file">>]
         [] c = "k" ->
              LET r == delete_line(yank_line(save_undo(e)))
              IN IF r.panicked THEN r ELSE [r EXCEPT !.status_message = <<"Line cut">>]
         [] c = "u" ->
              LET r == paste_after(e)
              IN IF r.panicked THEN r ELSE [r EXCEPT !.status_message = <<"Pasted">>]
         [] c = "w" -> [e EXCEPT !.nano_search_mode = TRUE, !.command_buffer = <<>>,
                                 !.status_message = <<"Search: ">>]
         [] c = "g" -> [e EXCEPT !.status_message =
                          <<"^X:Exit ^O:Save ^K:Cut ^U:Paste ^W:Search ^\\:Replace ^T:Vim">>]
         [] k = "\\" -> [e EXCEPT !.status_message =
                          <<"Replace: Use :s/old/new/g in Vim mode (^T to switch)">>]
         [] c = "a" -> move_to_line_start(e)
         [] c = "e" -> cursor_to_line_len(e)
         [] c = "y" -> move_page_up(e)
         [] c = "v" -> move_page_down(e)
         [] k = "_" -> [e EXCEPT !.status_message =
                <<"Go to line: (not implemented in nano mode, use :n in Vim mode)">>]
         [] c = "c" -> [e EXCEPT !.status_message =
                          <<"Line ", ToString(e.cursor_row + 1), ", Col ",
                            ToString(e.cursor_col + 1), ", ",
                            ToString(Len(e.lines)), " lines total">>]
         [] c = "z" -> undo(e)
         [] OTHER -> e

\* The keys of the Nano style without Ctrl.
nano_plain_keys(e, k) ==
    CASE k = "Esc" ->
           IF e.modified
           THEN [e EXCEPT !.status_message =
                   <<"Modified! Press ESC again to discard, ^O to save">>]
           ELSE exit_editor(e)
      [] k = "Enter" -> insert_newline(save_undo(e))
      [] k = "Backspace" -> backspace(save_undo(e))
      [] k = "Delete" -> delete_char(save_undo(e))
      [] k = "Tab" -> insert_spaces(save_undo(e), IndentWidth)
      [] k = "Left" -> move_cursor_left(e)
      [] k = "Right" -> move_cursor_right(e)
      [] k = "Up" -> move_cursor_up(e)
      [] k = "Down" -> move_cursor_down(e)
      [] k = "Home" -> move_to_line_start(e)
      [] k = "End" -> cursor_to_line_len(e)
      [] k = "PageUp" -> move_page_up(e)
      [] k = "PageDown" -> move_page_down(e)
      [] IsChar(k) -> insert_char(save_undo(e), k)
      [] OTHER -> e

handle_nano_keys(e, k, ctrl, io) ==
    IF e.panicked THEN e ELSE
    IF e.nano_search_mode THEN nano_search_keys(e, k)
    ELSE IF ctrl THEN nano_ctrl_keys(e, k, io)
    ELSE nano_plain_keys(e, k)

-----------------------------------------------------------------------------
(* events/editor.rs: Command mode *)

\* str::splitn(n, sep): at most n pieces, the last one holding the rest
RECURSIVE splitn(_, _, _)
splitn(s, n, sep) ==
    LET i == find(s, <<sep>>, 0)
    IN IF n <= 1 \/ i = -1 THEN <<s>>
       ELSE <<SliceTo(s, i)>> \o splitn(SliceFrom(s, i + 1), n - 1, sep)

\* str::matches(pat).count(): the matches from the left that do not overlap;
\* the empty pattern matches once before every character and once at the end
RECURSIVE matches_count(_, _)
matches_count(s, pat) ==
    IF pat = <<>> THEN Len(s) + 1
    ELSE IF Len(s) < Len(pat) THEN 0
    ELSE IF MatchAt(s, pat, 0) THEN 1 + matches_count(SliceFrom(s, Len(pat)), pat)
    ELSE matches_count(Tail(s), pat)

\* replacen that replaces every match, whatever the limit
RECURSIVE replacen_unlimited(_, _, _, _)
replacen_unlimited(s, pat, rep, limit) ==
    IF pat = <<>>
    THEN (IF s = <<>> THEN rep
          ELSE rep \o <<Head(s)>> \o replacen_unlimited(Tail(s), pat, rep, limit))
    ELSE IF Len(s) < Len(pat) THEN s
    ELSE IF MatchAt(s, pat, 0)
    THEN rep \o replacen_unlimited(SliceFrom(s, Len(pat)), pat, rep, limit)
    ELSE <<Head(s)>> \o replacen_unlimited(Tail(s), pat, rep, limit)

\* str::replacen(pat, rep, limit); str::replace is the same without a limit
RECURSIVE replacen(_, _, _, _)
replacen(s, pat, rep, limit) ==
    IF limit = 0 THEN s
    ELSE IF pat = <<>>
    THEN (IF s = <<>> THEN rep
          ELSE rep \o <<Head(s)>> \o replacen(Tail(s), pat, rep, limit - 1))
    ELSE IF Len(s) < Len(pat) THEN s
    ELSE IF MatchAt(s, pat, 0)
    THEN rep \o replacen(SliceFrom(s, Len(pat)), pat, rep, limit - 1)
    ELSE <<Head(s)>> \o replacen(Tail(s), pat, rep, limit)
replace(s, pat, rep) == replacen(s, pat, rep, Len(s) + 1)
contains(s, pat) == find(s, pat, 0) # -1

RECURSIVE Sum(_)
Sum(ns) == IF ns = <<>> THEN 0 ELSE Head(ns) + Sum(Tail(ns))

\* The command starts with the characters of prefix.
command_starts_with(command, prefix) ==
    Len(command) >= Len(prefix) /\ SliceTo(command, Len(prefix)) = prefix

\* The pieces of a substitute command: the % prefix, and the text after the
\* prefix split at the first two "/"
substitute_global(command) == command_starts_with(command, <<"%", "s", "/">>)
substitute_parts(command) ==
    splitn(SliceFrom(command, IF substitute_global(command) THEN 3 ELSE 2), 3, "/")

\* The loop of execute_substitute over the lines in scope: the lines it
\* leaves, and the replacements it has counted
substitute_lines(u, command) ==
    LET parts == substitute_parts(command)
        pattern == parts[1]
        replacement == parts[2]
        flags == IF Len(parts) > 2 THEN parts[3] ELSE <<>>
        replace_all == \E i \in DOMAIN flags : flags[i] = "g"
        hits(line) == IF replace_all THEN matches_count(line, pattern)
                      ELSE IF contains(line, pattern) THEN 1 ELSE 0
        subst(line) == IF replace_all THEN replace(line, pattern, replacement)
                       ELSE IF contains(line, pattern)
                       THEN replacen(line, pattern, replacement, 1) ELSE line
        rows == IF substitute_global(command) THEN DOMAIN u.lines
                ELSE {u.cursor_row + 1}
    IN [lines |-> [i \in DOMAIN u.lines |->
                     IF i \in rows THEN subst(u.lines[i]) ELSE u.lines[i]],
        total_replacements |->
            Sum([i \in DOMAIN u.lines |->
                   IF i \in rows THEN hits(u.lines[i]) ELSE 0])]

execute_substitute(e, command) ==
    LET parts == substitute_parts(command)
    IN IF Len(parts) < 2
       THEN enter_normal_mode([e EXCEPT !.status_message = <<"Invalid substitute command">>])
       ELSE
       LET u == save_undo(e)
           result == substitute_lines(u, command)
           done == [u EXCEPT !.lines = result.lines]
       IN IF ~substitute_global(command) /\ ~RowOk(u) THEN Panic(u)
          ELSE IF result.total_replacements > 0
          THEN enter_normal_mode(
                 [done EXCEPT !.modified = TRUE,
                              !.status_message = <<ToString(result.total_replacements),
                                                   " substitution(s) made">>])
          ELSE enter_normal_mode(
                 [done EXCEPT !.status_message = <<"Pattern not found: ">> \o parts[1]])

\* reload that keeps the undo and redo stacks
reload_history_kept(e, io) ==
    IF e.file_path = "Some"
    THEN IF io
         THEN [e EXCEPT !.lines = IF str_lines(e.disk) = <<>> THEN << <<>> >>
                                  ELSE str_lines(e.disk),
                        !.cursor_row = 0, !.cursor_col = 0, !.modified = FALSE,
                        !.status_message = <<"File reloaded">>]
         ELSE [e EXCEPT !.status_message = <<"Error reloading file">>]
    ELSE e

\* :e! with a path: the lines of the file when it can be read (io)
reload(e, io) ==
    IF e.file_path = "Some"
    THEN IF io
         THEN [e EXCEPT !.lines = IF str_lines(e.disk) = <<>> THEN << <<>> >>
                                  ELSE str_lines(e.disk),
                        !.cursor_row = 0, !.cursor_col = 0, !.modified = FALSE,
                        !.undo_stack = <<>>, !.redo_stack = <<>>,
                        !.status_message = <<"File reloaded">>]
         ELSE [e EXCEPT !.status_message = <<"Error reloading file">>]
    ELSE e

execute_command(e, io) ==
    LET command == e.command_buffer
        is(c) == command = c
    IN IF parse_usize(command) # -1
       THEN enter_normal_mode(move_to_line(e, parse_usize(command)))
       ELSE IF command_starts_with(command, <<"%", "s", "/">>)
               \/ command_starts_with(command, <<"s", "/">>)
       THEN execute_substitute(e, command)
       ELSE CASE is(<<"q">>) ->
                   IF e.modified
                   THEN enter_normal_mode([e EXCEPT !.status_message =
                          <<"No write since last change (use :q! to force)">>])
                   ELSE exit_editor(e)
              [] is(<<"q", "!">>) -> exit_editor(e)
              [] is(<<"w">>) ->
                   enter_normal_mode(
                     [save_file(e, io) EXCEPT !.status_message =
                        IF save_ok(e, io) THEN <<"File saved", ": ", "file_name">>
                        ELSE <<"Error: Could not save file">>])
              [] command \in {<<"w", "q">>, <<"x">>, <<"w", "q", "!">>, <<"x", "!">>} ->
                   IF save_ok(e, io) THEN exit_editor(save_file(e, io))
                   ELSE enter_normal_mode(
                          [save_file(e, io) EXCEPT !.status_message =
                             <<"Error: Could not save file">>])
              [] is(<<"e", "!">>) -> enter_normal_mode(reload(e, io))
              [] command \in {<<"s", "e", "t", " ", "n", "u">>,
                              <<"s", "e", "t", " ", "n", "u", "m", "b", "e", "r">>} ->
                   enter_normal_mode([e EXCEPT !.status_message =
                                        <<"Line numbers are always shown">>])
              [] command \in {<<"n", "o", "h">>,
                              <<"n", "o", "h", "l", "s", "e", "a", "r", "c", "h">>} ->
                   enter_normal_mode([e EXCEPT !.search_pattern = <<>>,
                        !.status_message = <<"Search highlighting cleared">>])
              [] is(<<"$">>) -> enter_normal_mode(move_to_last_line(e))
              \* the arm for "0" is never taken: "0" parses as a line number
              [] OTHER ->
                   enter_normal_mode([e EXCEPT !.status_message =
                                        <<"Unknown command: ">> \o command])

handle_command_mode_keys(e, k, io) ==
    IF e.panicked THEN e ELSE
    IF e.command_buffer = <<"r">> /\ IsChar(k)
    THEN enter_normal_mode(replace_char([e EXCEPT !.command_buffer = <<>>], k))
    ELSE IF e.command_buffer = <<"r">> /\ k = "Esc"
    THEN enter_normal_mode([e EXCEPT !.command_buffer = <<>>])
    ELSE
    LET is_search == starts_with(e.status_message, "/")
                     \/ starts_with(e.status_message, "?")
    IN CASE k = "Esc" -> enter_normal_mode(e)
         [] k = "Backspace" ->
              LET b == backspace_command(e)
              IN IF b.command_buffer = <<>> /\ ~is_search THEN enter_normal_mode(b)
                 ELSE b
         [] k = "Enter" -> IF is_search THEN execute_search(e)
                           ELSE execute_command(e, io)
         [] IsChar(k) -> append_command_char(e, k)
         [] OTHER -> e

-----------------------------------------------------------------------------
(* events/clipboard.rs, events/viewer.rs and main.rs: the way of a key.    *)
(* A key event is a key code k and a modifier m: "None", "Ctrl", "Super".  *)

is_ctrl_or_super(m) == m \in {"Ctrl", "Super"}

\* handle_clipboard_operations returns true in the viewer while editing
clipboard_consumes(k, m) == is_ctrl_or_super(m) /\ to_lowercase(k) \in {"c", "v", "x"}

handle_clipboard_operations(e, k) ==
    IF e.panicked THEN e ELSE
    CASE to_lowercase(k) = "c" -> yank_line(e)
      [] to_lowercase(k) = "v" -> paste_after(e)
      [] to_lowercase(k) = "x" -> delete_line(yank_line(e))

\* The Ctrl keys of the Vim style that handle_viewer_keys takes itself.
VimCtrlKeys == {"r", "d", "u", "f", "b", "o"}

vim_ctrl_keys(e, k) ==
    IF e.panicked THEN e ELSE
    CASE to_lowercase(k) = "r" -> redo(e)
      [] to_lowercase(k) = "d" -> move_half_page_down(e)
      [] to_lowercase(k) = "u" -> move_half_page_up(e)
      [] to_lowercase(k) = "f" -> move_page_down(e)
      [] to_lowercase(k) = "b" -> move_page_up(e)
      [] to_lowercase(k) = "o" -> move_to_first_line(e)

\* handle_viewer_keys while editing: the handler the key (k, m) goes to.  Its
\* arms for Ctrl/Cmd+C and Ctrl/Cmd+V are never reached:
\* handle_clipboard_operations has consumed those keys before it is called.
viewer_handler(e, k, m) ==
    IF is_ctrl_or_super(m) /\ to_lowercase(k) = "t" THEN "toggle_editor_style"
    ELSE IF e.editor_style = "Nano" THEN "handle_nano_keys"
    ELSE IF m = "Ctrl" /\ to_lowercase(k) \in VimCtrlKeys THEN "vim_ctrl_keys"
    ELSE CASE e.mode = "Normal" -> "handle_normal_mode_keys"
           [] e.mode = "Insert" -> "handle_insert_mode_keys"
           [] e.mode = "Command" -> "handle_command_mode_keys"
           [] e.mode \in {"Visual", "VisualLine"} -> "handle_visual_mode_keys"

\* main's match on the key in the viewer while editing: the handler the key
\* (k, m) goes to.  Ctrl+T, Tab, BackTab, [ and ], the backtick, the function
\* keys and Ctrl+Left/Right go elsewhere; q and Esc skip the clipboard handler,
\* and Esc is handed on without its modifiers.
handler_of(e, k, m) ==
    IF (m = "Ctrl" /\ to_lowercase(k) = "t") \/ k \in {"Tab", "[", "]"}
       \/ (m = "Ctrl" /\ k \in {"Left", "Right"})
    THEN "none"
    ELSE IF k = "Esc" THEN viewer_handler(e, k, "None")
    ELSE IF k # "q" /\ clipboard_consumes(k, m) THEN "handle_clipboard_operations"
    ELSE viewer_handler(e, k, m)

-----------------------------------------------------------------------------
(* The state machine *)

\* The editor record r becomes the state.  A panic ends the process: nothing
\* of the state it was in is left to observe but that it has ended.
Commit(r) ==
    IF r.panicked
    THEN /\ panicked' = TRUE
         /\ UNCHANGED <<lines, cursor_row, cursor_col, mode, editor_style,
                        command_buffer, clipboard, clipboard_is_line,
                        status_message, modified, pending_op, undo_stack,
                        redo_stack, search_pattern, search_direction,
                        last_search_row, last_search_col, visual_start_row,
                        visual_start_col, count_buffer, nano_search_mode,
                        file_path, viewer_editing, disk>>
    ELSE /\ lines' = r.lines
         /\ cursor_row' = r.cursor_row
         /\ cursor_col' = r.cursor_col
         /\ mode' = r.mode
         /\ editor_style' = r.editor_style
         /\ command_buffer' = r.command_buffer
         /\ clipboard' = r.clipboard
         /\ clipboard_is_line' = r.clipboard_is_line
         /\ status_message' = r.status_message
         /\ modified' = r.modified
         /\ pending_op' = r.pending_op
         /\ undo_stack' = r.undo_stack
         /\ redo_stack' = r.redo_stack
         /\ search_pattern' = r.search_pattern
         /\ search_direction' = r.search_direction
         /\ last_search_row' = r.last_search_row
         /\ last_search_col' = r.last_search_col
         /\ visual_start_row' = r.visual_start_row
         /\ visual_start_col' = r.visual_start_col
         /\ count_buffer' = r.count_buffer
         /\ nano_search_mode' = r.nano_search_mode
         /\ file_path' = r.file_path
         /\ viewer_editing' = r.viewer_editing
         /\ disk' = r.disk
         /\ panicked' = FALSE

\* The session opens on the text content of a file, with or without a path.
Open(content, path) ==
    LET e == new(content, path)
    IN /\ lines = e.lines /\ cursor_row = e.cursor_row /\ cursor_col = e.cursor_col
       /\ mode = e.mode /\ editor_style = e.editor_style
       /\ command_buffer = e.command_buffer /\ clipboard = e.clipboard
       /\ clipboard_is_line = e.clipboard_is_line
       /\ status_message = e.status_message /\ modified = e.modified
       /\ pending_op = e.pending_op /\ undo_stack = e.undo_stack
       /\ redo_stack = e.redo_stack /\ search_pattern = e.search_pattern
       /\ search_direction = e.search_direction
       /\ last_search_row = e.last_search_row /\ last_search_col = e.last_search_col
       /\ visual_start_row = e.visual_start_row
       /\ visual_start_col = e.visual_start_col /\ count_buffer = e.count_buffer
       /\ nano_search_mode = e.nano_search_mode /\ file_path = e.file_path
       /\ viewer_editing = e.viewer_editing /\ disk = e.disk
       /\ panicked = e.panicked
       /\ typed = <<>>

\* The key (k, m) goes to handler h, which leaves the editor record r.
\* P names the keys a specification draws from, and what it keeps in typed:
\* an entry for each key, the number of keys only, or nothing.
Pressed(P, h, k, m, r, entry) ==
    /\ viewer_editing /\ ~panicked
    /\ handler_of(Ed, k, m) = h
    /\ P.record = "none" \/ Len(typed) < P.max_keys
    /\ Len(r.count_buffer) <= MaxCountDigits
    /\ Commit(r)
    /\ typed' = CASE P.record = "keys" -> Append(typed, entry)
                  [] P.record = "count" -> Append(typed, <<"", "">>)
                  [] OTHER -> typed

Key(P, h, k, m, r) == Pressed(P, h, k, m, r, <<m, k>>)

ClipboardOp(P) ==
    \E k \in P.clip :
       Key(P, "handle_clipboard_operations", k, "Ctrl",
           handle_clipboard_operations(Ed, k))

ToggleStyle(P) ==
    Key(P, "toggle_editor_style", "t", "Super", toggle_editor_style(Ed))

VimCtrlKey(P) ==
    \E k \in P.vim_ctrl : Key(P, "vim_ctrl_keys", k, "Ctrl", vim_ctrl_keys(Ed, k))

NormalKey(P) ==
    \E k \in P.normal :
       Key(P, "handle_normal_mode_keys", k, "None", handle_normal_mode_keys(Ed, k))

InsertKey(P) ==
    \E k \in P.insert :
       Key(P, "handle_insert_mode_keys", k, "None", handle_insert_mode_keys(Ed, k))

\* io: the file operation the command asks for succeeds; the entry kept in
\* typed for a Command-mode key holds it as a third component
CommandKey(P) ==
    \E k \in P.command : \E io \in (IF k = "Enter" THEN BOOLEAN ELSE {TRUE}) :
       Pressed(P, "handle_command_mode_keys", k, "None",
               handle_command_mode_keys(Ed, k, io), <<"None", k, io>>)

VisualKey(P) ==
    \E k \in P.visual :
       Key(P, "handle_visual_mode_keys", k, "None", handle_visual_mode_keys(Ed, k))

NanoKey(P) ==
    \E k \in P.nano :
       Key(P, "handle_nano_keys", k, "None", handle_nano_keys(Ed, k, FALSE, TRUE))

NanoCtrlKey(P) ==
    \E k \in P.nano_ctrl : \E io \in (IF k = "o" THEN BOOLEAN ELSE {TRUE}) :
       Key(P, "handle_nano_keys", k, "Ctrl", handle_nano_keys(Ed, k, TRUE, io))

-----------------------------------------------------------------------------
(* The keys and the files of the specifications *)

ArrowKeys == {"Left", "Right", "Up", "Down", "Home", "End"}
\* Every key handle_normal_mode_keys has an arm for, two digits, and Enter,
\* which it ignores.
NormalKeys ==
    {"h", "j", "k", "l", "0", "^", "$", "w", "b", "e", "g", "G", "%", "x", "X",
     "d", "D", "y", "Y", "c", "C", "p", "P", "r", "s", "S", "u", "J", ">", "<",
     "~", "/", "?", "n", "N", "*", "v", "V", "i", "I", "a", "A", "o", "O", ":",
     "Esc", "2", "3", "Enter"} \cup ArrowKeys
\* Every key handle_visual_mode_keys has an arm for, and one it ignores.
VisualKeys ==
    {"Esc", "v", "V", "h", "j", "k", "l", "w", "b", "e", "0", "$", "^", "G", "g",
     "d", "x", "y", "c", "s", ">", "<", "~", "u", "U", "J", "p"} \cup ArrowKeys
\* The characters typed as text.
TypeChars == {"a", " ", "("}
InsertKeys == TypeChars \cup ArrowKeys \cup {"Esc", "Enter", "Backspace", "Delete"}
\* The characters typed on the command line, and its keys.
CommandKeys == {"q", "w", "x", "e", "!", "s", "/", "a", "2", "$", "%", "g"}
               \cup {"Esc", "Enter", "Backspace", "Delete"}
NanoKeys == InsertKeys \cup {"PageUp", "PageDown"}
\* The Ctrl shortcuts of the Nano style that reach handle_nano_keys.
NanoCtrlKeys == {"o", "k", "u", "w", "g", "\\", "a", "e", "y", "_", "z", "q"}
ClipboardKeys == {"c", "v", "x"}

\* The contents of the files a session opens on.
InitTexts ==
    { <<>>,
      <<"a", "b">>,
      <<" ", "a", "\n", "\n", "(", "a", ")", "\n">>,
      <<"o", "n", "e", "\n", "t", "w", "o", "\n", "t", "h", "r", "e", "e">> }
FilePaths == {"Some", "None"}

Init == \E content \in InitTexts, path \in FilePaths : Open(content, path)

\* Spec: every key, sessions of MaxKeys keys.
Full == [normal |-> NormalKeys, insert |-> InsertKeys, command |-> CommandKeys,
         visual |-> VisualKeys, nano |-> NanoKeys, nano_ctrl |-> NanoCtrlKeys,
         vim_ctrl |-> VimCtrlKeys, clip |-> ClipboardKeys,
         record |-> "count", max_keys |-> MaxKeys]

Next ==
    \/ ClipboardOp(Full)
    \/ ToggleStyle(Full)
    \/ VimCtrlKey(Full)
    \/ NormalKey(Full)
    \/ InsertKey(Full)
    \/ CommandKey(Full)
    \/ VisualKey(Full)
    \/ NanoKey(Full)
    \/ NanoCtrlKey(Full)

Spec == Init /\ [][Next]_vars

-----------------------------------------------------------------------------
(* SpecLines: the keys that add and remove lines, in sessions of           *)
(* MaxLineKeys keys, on a file whose content on disk has fewer lines than  *)
(* the buffer may come to hold.                                            *)

LineKeys == [normal |-> {"d", "G", "g", "j", "J", "o", "u", "p", "v", "V", ":", "i"},
             insert |-> {"Esc", "Backspace", "Enter"},
             command |-> {"e", "!", "Enter"},
             visual |-> {"d", "j"}, nano |-> {"Backspace"}, nano_ctrl |-> {"k", "z"},
             vim_ctrl |-> {"r"}, clip |-> {"x"},
             record |-> "count", max_keys |-> MaxLineKeys]

LineTexts == { <<>>, <<"a", "\n", "b">> }

InitLines == \E content \in LineTexts : Open(content, "Some")

NextLines ==
    \/ ClipboardOp(LineKeys)
    \/ ToggleStyle(LineKeys)
    \/ VimCtrlKey(LineKeys)
    \/ NormalKey(LineKeys)
    \/ InsertKey(LineKeys)
    \/ CommandKey(LineKeys)
    \/ VisualKey(LineKeys)
    \/ NanoKey(LineKeys)
    \/ NanoCtrlKey(LineKeys)

SpecLines == InitLines /\ [][NextLines]_vars

-----------------------------------------------------------------------------
(* SpecTyped: sessions of MaxTyped keys on the file of three lines, with   *)
(* the keys kept in typed.                                                 *)

TypedKeys == [normal |-> {"2", "3", "d", "j", "x", "u", "i", "G", "p"},
              insert |-> {"a", "Esc"},
              command |-> {}, visual |-> {}, nano |-> {}, nano_ctrl |-> {},
              vim_ctrl |-> {"r"}, clip |-> {},
              record |-> "keys", max_keys |-> MaxTyped]

OneTwoThree == <<"o", "n", "e", "\n", "t", "w", "o", "\n", "t", "h", "r", "e", "e">>

InitTyped == Open(OneTwoThree, "Some")

NextTyped ==
    \/ VimCtrlKey(TypedKeys)
    \/ NormalKey(TypedKeys)
    \/ InsertKey(TypedKeys)

SpecTyped == InitTyped /\ [][NextTyped]_vars

-----------------------------------------------------------------------------
(* SpecHist: sessions without end on a file of one character, with the     *)
(* keys that fill and empty the undo and redo stacks.                      *)

HistKeys == [normal |-> {"~", "u"}, insert |-> {}, command |-> {}, visual |-> {},
             nano |-> {}, nano_ctrl |-> {}, vim_ctrl |-> {"r"}, clip |-> {},
             record |-> "none", max_keys |-> 0]

InitHist == Open(<<"a">>, "Some")

NextHist ==
    \/ VimCtrlKey(HistKeys)
    \/ NormalKey(HistKeys)

SpecHist == InitHist /\ [][NextHist]_vars

-----------------------------------------------------------------------------
(* Properties *)

\* The number of characters of the line the cursor is on.
CurrentLineLen == char_count(get_current_line(Ed))

\* C1: in every reachable state the buffer holds at least one line.
C1_AtLeastOneLine == Len(lines) >= 1

\* A session has removed every line of a buffer of two lines, and the buffer
\* is the one empty line.
C1_Witness ==
    /\ lines = << <<>> >>
    /\ clipboard_is_line /\ Len(clipboard) = 2
    /\ modified

\* C2: in every reachable state the cursor column is at most the length of
\* the current line in Insert mode, and at most max(length - 1, 0) in every
\* other mode.
C2_CursorColInBound ==
    cursor_col <= IF mode = "Insert" THEN CurrentLineLen
                  ELSE Max(saturating_sub(CurrentLineLen, 1), 0)

\* C3: in every reachable state the cursor row is the index of a line.
C3_CursorRowValid == cursor_row < Len(lines)

\* A session has removed the last line with the cursor on it, and the cursor
\* is on the line that is left.
C3_Witness ==
    /\ lines = << <<"a">> >>
    /\ clipboard = << <<"b">> >> /\ clipboard_is_line
    /\ cursor_row = 0

\* C4: no key makes the engine fail: no reachable state is one in which an
\* index or a range was out of the bounds of the buffer or of a line.
C4_NoPanic == ~panicked

\* The step changes the lines of the buffer.
LinesChanged == lines' # lines
\* The step is an undo, a redo, or the reload of the file by :e!.
IsUndoStep ==
    /\ undo_stack # <<>> /\ status_message' = <<"Undo">>
    /\ undo_stack' = SubSeq(undo_stack, 1, Len(undo_stack) - 1)
    /\ redo_stack' = Append(redo_stack, Snapshot(Ed))
IsRedoStep ==
    /\ redo_stack # <<>> /\ status_message' = <<"Redo">>
    /\ redo_stack' = SubSeq(redo_stack, 1, Len(redo_stack) - 1)
    /\ undo_stack' = Append(undo_stack, Snapshot(Ed))
IsReloadStep ==
    /\ editor_style = "Vim" /\ mode = "Command" /\ command_buffer = <<"e", "!">>
    /\ mode' = "Normal"
\* The step is an edit: it changes the lines and is none of the three.
IsEditStep == LinesChanged /\ ~IsUndoStep /\ ~IsRedoStep /\ ~IsReloadStep

\* C5: an undo right after any single action that changes the lines restores
\* the lines and the cursor (row, col) that held before that action.
C5_UndoRoundTrip ==
    [][IsEditStep =>
         LET r == undo(Ed')
         IN r.lines = lines /\ r.cursor_row = cursor_row /\ r.cursor_col = cursor_col]_vars

\* C6: after any action other than undo or redo that changes the lines, the
\* redo stack is empty.
C6_RedoEmptyAfterEdit ==
    [][(LinesChanged /\ ~IsUndoStep /\ ~IsRedoStep) => redo_stack' = <<>>]_vars

\* C7: every action that changes the lines (other than undo, redo and reload)
\* first pushes onto the undo stack a snapshot equal to the lines and the
\* cursor before the action, and leaves the modified flag true.
C7_SnapshotBeforeEdit ==
    [][IsEditStep =>
         /\ Len(undo_stack') > Len(undo_stack)
         /\ undo_stack'[Len(undo_stack) + 1] = Snapshot(Ed)
         /\ modified']_vars

\* C8: the undo stack never holds more than 100 entries, and a snapshot
\* recorded on a full stack evicts the oldest entry and keeps the newest 100
\* in order.
C8_UndoStackBounded ==
    /\ [](Len(undo_stack) <= UndoCap)
    /\ [][(IsEditStep /\ Len(undo_stack) = UndoCap) =>
            undo_stack' = Append(Tail(undo_stack), Snapshot(Ed))]_vars

\* The stack is full and its oldest entry is no longer the snapshot of the
\* file as it was opened: that entry has been evicted.
C8_Witness ==
    /\ Len(undo_stack) = UndoCap
    /\ undo_stack[1][1] = << <<"A">> >>

\* What C9 says an undo or redo with nothing to do leaves as it was.
SameButStatus(r) ==
    /\ r.lines = lines /\ r.cursor_row = cursor_row /\ r.cursor_col = cursor_col
    /\ r.mode = mode /\ r.clipboard = clipboard
    /\ r.clipboard_is_line = clipboard_is_line
    /\ r.undo_stack = undo_stack /\ r.redo_stack = redo_stack

\* C9: undo with an empty undo stack and redo with an empty redo stack change
\* neither lines, cursor, mode, register nor the stacks, and set the status
\* to a message that says so; the key u of Normal mode does so too.
C9_EmptyStackNoOp ==
    ~panicked =>
      /\ undo_stack = <<>> =>
           /\ SameButStatus(undo(Ed))
           /\ undo(Ed).status_message = <<"Already at oldest change">>
           /\ (editor_style = "Vim" /\ mode = "Normal") =>
                 /\ SameButStatus(handle_normal_mode_keys(Ed, "u"))
                 /\ handle_normal_mode_keys(Ed, "u").status_message =
                       <<"Already at oldest change">>
      /\ redo_stack = <<>> =>
           /\ SameButStatus(redo(Ed))
           /\ redo(Ed).status_message = <<"Already at newest change">>

\* A redo has been asked for after an edit, with nothing to redo.
C9_Witness ==
    /\ status_message = <<"Already at newest change">>
    /\ redo_stack = <<>> /\ undo_stack # <<>>

\* The keys typed are a digit N >= 1, d, d.
TypedCountDD ==
    /\ Len(typed) = 3
    /\ typed[1][1] = "None" /\ typed[1][2] \in Digits \ {"0"}
    /\ typed[2] = <<"None", "d">> /\ typed[3] = <<"None", "d">>

\* C10: the keys N, d, d on the file of three lines, cursor at (0, 0), remove
\* the first min(N, 3) lines and store exactly those in the register,
\* line-wise.
C10_CountBeforeOperator ==
    TypedCountDD =>
      LET opened == str_lines(OneTwoThree)
          removed == Min(DigitValue(typed[1][2]), Len(opened))
          rest == SubSeq(opened, removed + 1, Len(opened))
      IN /\ lines = IF rest = <<>> THEN << <<>> >> ELSE rest
         /\ clipboard = SubSeq(opened, 1, removed)
         /\ clipboard_is_line

-----------------------------------------------------------------------------
(* SpecOps: sessions of MaxTyped keys of Normal mode, with the keys kept   *)
(* in typed: the operators d y c > <, a count, the keys that complete or   *)
(* abandon an operator, and the keys that move the cursor to where an      *)
(* operator starts.                                                         *)

OpKeys == [normal |-> {"2", "d", "y", "c", ">", "<", "w", "$", "x", "j", "l"},
           insert |-> {"Esc"},
           command |-> {}, visual |-> {}, nano |-> {}, nano_ctrl |-> {},
           vim_ctrl |-> {}, clip |-> {},
           record |-> "keys", max_keys |-> MaxTyped]

\* "  a b" and "    c": lines that start with blanks
Indented == <<" ", " ", "a", " ", "b", "\n", " ", " ", " ", " ", "c">>

OpTexts == {OneTwoThree, Indented}

InitOps == \E content \in OpTexts : Open(content, "Some")

NextOps ==
    \/ NormalKey(OpKeys)
    \/ InsertKey(OpKeys)

SpecOps == InitOps /\ [][NextOps]_vars

-----------------------------------------------------------------------------
(* Properties of the operators of Normal mode *)

\* The step is a key without modifier, kept in typed; StepKey is that key.
PlainKeyStep == Len(typed') = Len(typed) + 1 /\ typed'[Len(typed')][1] = "None"
StepKey == typed'[Len(typed')][2]

\* The key goes to handle_normal_mode_keys.
InVimNormal == editor_style = "Vim" /\ mode = "Normal"

\* C11: with an operator pending in Normal mode, a key that is neither a digit
\* nor a key that completes the operator only clears the pending operator:
\* lines, cursor, register, mode, modified flag and both stacks stay as they
\* were.
C11_OperatorAbandoned ==
    [][(/\ InVimNormal /\ pending_op # "None" /\ PlainKeyStep
        /\ StepKey \notin Digits /\ ~Completes(pending_op, StepKey))
       => /\ pending_op' = "None"
          /\ lines' = lines /\ cursor_row' = cursor_row /\ cursor_col' = cursor_col
          /\ clipboard' = clipboard /\ clipboard_is_line' = clipboard_is_line
          /\ mode' = mode /\ modified' = modified
          /\ undo_stack' = undo_stack /\ redo_stack' = redo_stack]_vars

-----------------------------------------------------------------------------
(* SpecMotion: sessions of MaxKeys keys that move the cursor in Normal     *)
(* mode, with the keys kept in typed.                                      *)

\* The motion keys of handle_normal_mode_keys, and the page motions of
\* handle_viewer_keys (with Ctrl).
MotionKeys == {"h", "j", "k", "l", "w", "b", "e", "0", "^", "$", "%", "G", "g"}
PageKeys == {"d", "u", "f", "b"}

MotionProfile == [normal |-> MotionKeys, insert |-> {}, command |-> {},
                  visual |-> {}, nano |-> {}, nano_ctrl |-> {},
                  vim_ctrl |-> PageKeys, clip |-> {},
                  record |-> "keys", max_keys |-> MaxKeys]

InitMotion == \E content \in InitTexts : Open(content, "Some")

NextMotion ==
    \/ VimCtrlKey(MotionProfile)
    \/ NormalKey(MotionProfile)

SpecMotion == InitMotion /\ [][NextMotion]_vars

\* The step is a page motion: Ctrl with one of the page keys.
PageKeyStep ==
    /\ Len(typed') = Len(typed) + 1
    /\ typed'[Len(typed')][1] = "Ctrl" /\ StepKey \in PageKeys

\* The state a single g leaves: the first key of the sequence g g has been typed.
AfterSingleG == pending_op = "Delete" /\ status_message = <<"g">>

\* C12: in Normal mode a motion key typed with no operator pending, the key
\* typed after a single g, and a page motion leave lines, register, modified
\* flag and both stacks as they were.
C12_MotionsKeepBuffer ==
    [][(/\ InVimNormal
        /\ \/ PlainKeyStep /\ StepKey \in MotionKeys
              /\ (pending_op = "None" \/ AfterSingleG)
           \/ PageKeyStep /\ pending_op = "None")
       => /\ lines' = lines
          /\ clipboard' = clipboard /\ clipboard_is_line' = clipboard_is_line
          /\ modified' = modified
          /\ undo_stack' = undo_stack /\ redo_stack' = redo_stack]_vars

\* The key that completes operator op by repeating it.
OperatorKey(op) ==
    CASE op = "Delete" -> "d" [] op = "Yank" -> "y" [] op = "Change" -> "c"
      [] op = "Indent" -> ">" [] op = "Outdent" -> "<" [] OTHER -> ""

\* The count the completing key finds, and the rows cursor_row .. LastOpRow the
\* operator is then for.
OpCount == count_of(Ed)
LastOpRow == Min(cursor_row + OpCount, Len(lines)) - 1
OpRows == SubSeq(lines, cursor_row + 1, LastOpRow + 1)
WithoutOpRows == SubSeq(lines, 1, cursor_row) \o SubSeq(lines, LastOpRow + 2, Len(lines))

\* C13: an operator completed by repeating its key with count N is applied to
\* the N whole lines from the cursor row (fewer at the end of the buffer), once
\* per line: d removes them into the register, y copies them into the
\* register, > and < indent and outdent each of them once, and c changes more
\* than the cursor line when another of the N lines has text.
C13_OperatorOnCountLines ==
    [][(/\ InVimNormal /\ pending_op # "None" /\ PlainKeyStep
        /\ StepKey = OperatorKey(pending_op))
       => /\ ~panicked'
          /\ pending_op = "Delete" =>
               /\ lines' = IF WithoutOpRows = <<>> THEN << <<>> >> ELSE WithoutOpRows
               /\ clipboard' = OpRows /\ clipboard_is_line'
          /\ pending_op = "Yank" =>
               /\ lines' = lines
               /\ clipboard' = OpRows /\ clipboard_is_line'
          /\ pending_op = "Indent" =>
               lines' = IndentRows(lines, cursor_row, LastOpRow)
          /\ pending_op = "Outdent" =>
               lines' = OutdentRows(lines, cursor_row, LastOpRow)
          /\ (pending_op = "Change"
              /\ \E i \in (cursor_row + 2)..(LastOpRow + 1) : lines[i] # <<>>) =>
               lines' # [lines EXCEPT ![cursor_row + 1] = <<>>]]_vars

\* The place of position (row, col) in the text of the buffer, its lines joined
\* by newlines.
RECURSIVE LineStart(_, _)
LineStart(ls, row) ==
    IF row = 0 THEN 0 ELSE LineStart(ls, row - 1) + Len(ls[row]) + 1
TextOffset(ls, row, col) == LineStart(ls, row) + col

\* C14: d followed by w removes the text from the cursor up to, not including,
\* the position the w motion lands on, whether on the same line or the next;
\* the register holds the removed text character-wise and the cursor is where
\* it was.
C14_DeleteWordSpan ==
    [][(/\ InVimNormal /\ pending_op = "Delete" /\ count_buffer = <<>>
        /\ PlainKeyStep /\ StepKey = "w")
       => LET landing == move_word_forward(Ed)
              text == get_content(Ed)
              from == TextOffset(lines, cursor_row, cursor_col)
              to == TextOffset(lines, landing.cursor_row, landing.cursor_col)
          IN /\ ~panicked'
             /\ join(lines', <<"\n">>) =
                   SubSeq(text, 1, from) \o SubSeq(text, to + 1, Len(text))
             /\ cursor_row' = cursor_row /\ cursor_col' = cursor_col
             /\ to > from =>
                  /\ join(clipboard', <<"\n">>) = SubSeq(text, from + 1, to)
                  /\ ~clipboard_is_line']_vars

-----------------------------------------------------------------------------
(* SpecVisual: sessions of MaxTyped keys that select, operate on the       *)
(* selection, yank and paste, with the keys kept in typed.                 *)

VisualProfile ==
    [normal |-> {"l", "j", "$", "v", "V", "y", "Y", "2", "p", "P"},
     insert |-> {}, command |-> {},
     visual |-> {"h", "j", "k", "l", "d", "y", "c", ">", "<", "~", "J"},
     nano |-> {}, nano_ctrl |-> {}, vim_ctrl |-> {}, clip |-> {"x"},
     record |-> "keys", max_keys |-> MaxTyped]

\* "abc" and "def"; and "ab", an empty line and " c"
AbcDef == <<"a", "b", "c", "\n", "d", "e", "f">>
WithEmptyLine == <<"a", "b", "\n", "\n", " ", "c">>

InitVisual == \E content \in {AbcDef, WithEmptyLine} : Open(content, "Some")

NextVisual ==
    \/ ClipboardOp(VisualProfile)
    \/ NormalKey(VisualProfile)
    \/ VisualKey(VisualProfile)

SpecVisual == InitVisual /\ [][NextVisual]_vars

-----------------------------------------------------------------------------
(* Properties of the visual selection, of yank and of paste *)

InVisual == editor_style = "Vim" /\ mode \in {"Visual", "VisualLine"}

\* The anchor and the cursor as positions, and the first and the last of them
\* in document order.
Anchor == <<visual_start_row, visual_start_col>>
Cursor == <<cursor_row, cursor_col>>
Before(p, q) == p[1] < q[1] \/ (p[1] = q[1] /\ p[2] <= q[2])
SelStart == IF Before(Anchor, Cursor) THEN Anchor ELSE Cursor
SelEnd == IF Before(Anchor, Cursor) THEN Cursor ELSE Anchor

\* Both ends of the selection are positions of the buffer.
SelectionInBuffer ==
    /\ SelEnd[1] < Len(lines)
    /\ SelStart[2] <= Len(lines[SelStart[1] + 1])

\* The rows of the selection, and the lines before and after them.
SelRows == SubSeq(lines, SelStart[1] + 1, SelEnd[1] + 1)
AboveSel == SubSeq(lines, 1, SelStart[1])
BelowSel == SubSeq(lines, SelEnd[1] + 2, Len(lines))

\* The characters of a character-wise selection, start through end inclusive,
\* as a piece of the text of the buffer; the end stops at the end of its line.
SelText ==
    LET last == Min(SelEnd[2], Len(lines[SelEnd[1] + 1]) - 1)
    IN SubSeq(get_content(Ed),
              TextOffset(lines, SelStart[1], SelStart[2]) + 1,
              TextOffset(lines, SelEnd[1], last) + 1)

\* C15: deleting a visual selection whose ends are in the buffer removes the
\* characters from its start through its end inclusive and leaves the text
\* before the start joined with the text after the end as one line (the whole
\* lines in VisualLine); the register holds the removed text, character-wise
\* in Visual and line-wise in VisualLine.
C15_VisualDeleteSpan ==
    [][(/\ InVisual /\ SelectionInBuffer
        /\ PlainKeyStep /\ StepKey \in {"d", "x"})
       => /\ ~panicked'
          /\ mode = "Visual" =>
               LET first == lines[SelStart[1] + 1]
                   last == lines[SelEnd[1] + 1]
                   kept == SubSeq(first, 1, SelStart[2])
                           \o SubSeq(last, SelEnd[2] + 2, Len(last))
               IN /\ lines' = AboveSel \o <<kept>> \o BelowSel
                  /\ join(clipboard', <<"\n">>) = SelText
                  /\ ~clipboard_is_line'
          /\ mode = "VisualLine" =>
               /\ lines' = IF AboveSel \o BelowSel = <<>> THEN << <<>> >>
                           ELSE AboveSel \o BelowSel
               /\ clipboard' = SelRows
               /\ clipboard_is_line']_vars

\* C16 as stated: with the buffer "abc", "def", the anchor on (0,1) and the
\* cursor on (1,1) in Visual mode, deleting the selection leaves the one line
\* "ae".
C16_ExampleLeavesAe ==
    [][(/\ InVisual /\ mode = "Visual" /\ lines = str_lines(AbcDef)
        /\ Anchor = <<0, 1>> /\ Cursor = <<1, 1>>
        /\ PlainKeyStep /\ StepKey \in {"d", "x"})
       => lines' = << <<"a", "e">> >>]_vars

\* C16: with the buffer "abc", "def", the anchor on (0,1) and the cursor on
\* (1,1) in Visual mode, deleting the selection leaves the one line "af": the
\* text before column 1 of the first line joined with the text after column 1
\* of the second.
C16_ExampleLeavesAf ==
    [][(/\ InVisual /\ mode = "Visual" /\ lines = str_lines(AbcDef)
        /\ Anchor = <<0, 1>> /\ Cursor = <<1, 1>>
        /\ PlainKeyStep /\ StepKey \in {"d", "x"})
       => /\ lines' = << <<"a", "f">> >>
          /\ clipboard' = << <<"b", "c">>, <<"d", "e">> >>
          /\ ~clipboard_is_line']_vars

\* The selection of the example has been made with l, v, j and deleted with d.
C16_Witness ==
    /\ typed = << <<"None", "l">>, <<"None", "v">>, <<"None", "j">>, <<"None", "d">> >>
    /\ disk = AbcDef
    /\ lines = << <<"a", "f">> >> /\ mode = "Normal"

\* C17: in Visual and VisualLine mode get_visual_selection returns the anchor
\* and the cursor as (start_row, start_col, end_row, end_col) with the start
\* not after the end in document order; in VisualLine mode start_col is 0 and
\* end_col is the width of the end line.
C17_SelectionNormalized ==
    (InVisual /\ ~panicked) =>
      LET sel == get_visual_selection(Ed)
      IN /\ sel # <<>>
         /\ Before(<<sel[1], sel[2]>>, <<sel[3], sel[4]>>)
         /\ mode = "Visual" =>
              {<<sel[1], sel[2]>>, <<sel[3], sel[4]>>} = {Anchor, Cursor}
         /\ mode = "VisualLine" =>
              /\ {sel[1], sel[3]} = {visual_start_row, cursor_row}
              /\ sel[2] = 0
              /\ sel[4] = Len(lines[sel[3] + 1])

\* The keys of handle_visual_mode_keys that operate on the selection: delete,
\* yank, change, indent, outdent, the case operations and join.
VisualOperationKeys == {"d", "x", "y", "c", "s", ">", "<", "~", "u", "U", "J"}

\* C18: every visual operation applied in Visual or VisualLine mode ends with
\* the mode Normal.
C18_VisualOperationEndsNormal ==
    [][(InVisual /\ PlainKeyStep /\ StepKey \in VisualOperationKeys)
       => (~panicked' /\ mode' = "Normal")]_vars

\* What no yank changes: lines, modified flag and both stacks.
DocumentKept ==
    /\ lines' = lines /\ modified' = modified
    /\ undo_stack' = undo_stack /\ redo_stack' = redo_stack

\* C19: yy with its count, Y, y$ and the yank of a visual selection leave
\* lines, modified flag and both stacks as they were and set the register to
\* the yanked text: line-wise for yy, Y and VisualLine, character-wise for y$
\* and Visual.
C19_YankKeepsDocument ==
    [][(PlainKeyStep /\ ~panicked)
       => /\ (InVimNormal /\ pending_op = "Yank" /\ StepKey = "y") =>
               /\ ~panicked' /\ DocumentKept
               /\ clipboard' = OpRows /\ clipboard_is_line'
          /\ (InVimNormal /\ pending_op = "None" /\ StepKey = "Y") =>
               /\ ~panicked' /\ DocumentKept
               /\ clipboard' = <<lines[cursor_row + 1]>> /\ clipboard_is_line'
          /\ (InVimNormal /\ pending_op = "Yank" /\ StepKey = "$") =>
               /\ ~panicked' /\ DocumentKept
               /\ clipboard' = <<SubSeq(lines[cursor_row + 1], cursor_col + 1,
                                        Len(lines[cursor_row + 1]))>>
               /\ ~clipboard_is_line'
          /\ (InVisual /\ SelectionInBuffer /\ StepKey = "y") =>
               /\ ~panicked' /\ DocumentKept
               /\ mode = "Visual" =>
                    join(clipboard', <<"\n">>) = SelText /\ ~clipboard_is_line'
               /\ mode = "VisualLine" =>
                    clipboard' = SelRows /\ clipboard_is_line']_vars

\* The text a character-wise register holds: its pieces joined by newlines.
RegisterText == join(clipboard, <<"\n">>)
\* The current line with text spliced in at column at.
SplicedAt(at, text) ==
    LET line == lines[cursor_row + 1]
    IN SubSeq(line, 1, at) \o text \o SubSeq(line, at + 1, Len(line))
\* Only the current line differs, and it is now line.
OnlyCurrentLineIs(line) == lines' = [lines EXCEPT ![cursor_row + 1] = line]

\* C20: p and P with a line-wise register insert its lines, in order, as whole
\* lines below (p) or above (P) the cursor row and leave the other lines as
\* they were; with a character-wise register they change only the current
\* line, splicing the register text in after the cursor character (p) or at
\* the cursor (P), and the number of lines is the same.
C20_PasteByRegisterKind ==
    [][(InVimNormal /\ PlainKeyStep /\ StepKey \in {"p", "P"})
       => LET at == IF StepKey = "p" THEN cursor_row + 1 ELSE cursor_row
              col == IF StepKey = "p"
                     THEN Min(cursor_col + 1, Len(lines[cursor_row + 1]))
                     ELSE cursor_col
          IN /\ ~panicked'
             /\ clipboard_is_line =>
                  lines' = SubSeq(lines, 1, at) \o clipboard
                           \o SubSeq(lines, at + 1, Len(lines))
             /\ ~clipboard_is_line =>
                  /\ OnlyCurrentLineIs(SplicedAt(col, RegisterText))
                  /\ Len(lines') = Len(lines)]_vars

\* The two lines "abc", "def" have been yanked line-wise with V, j, y and
\* pasted below the first line with p.
C20_Witness ==
    /\ typed = << <<"None", "V">>, <<"None", "j">>, <<"None", "y">>, <<"None", "p">> >>
    /\ disk = AbcDef
    /\ lines = << <<"a", "b", "c">>, <<"a", "b", "c">>, <<"d", "e", "f">>,
                  <<"d", "e", "f">> >>
    /\ clipboard_is_line /\ cursor_row = 1

-----------------------------------------------------------------------------
(* SpecCommand: command lines typed after ":" and submitted with Enter, in *)
(* sessions of MaxCommandKeys keys that may first change the buffer (x)    *)
(* and leave the first line (j), on files with and without a path.         *)

MaxCommandKeys == 5

CommandProfile ==
    [normal |-> {"x", "j", ":"}, insert |-> {},
     command |-> {"q", "w", "x", "e", "!", "0", "2", "$", "Enter"},
     visual |-> {}, nano |-> {}, nano_ctrl |-> {}, vim_ctrl |-> {}, clip |-> {},
     record |-> "keys", max_keys |-> MaxCommandKeys]

CommandTexts == { <<>>, OneTwoThree }

InitCommand == \E content \in CommandTexts, path \in FilePaths : Open(content, path)

NextCommand ==
    \/ NormalKey(CommandProfile)
    \/ CommandKey(CommandProfile)

SpecCommand == InitCommand /\ [][NextCommand]_vars

\* The step submits the command line typed after ":" (not a search).
CommandEnter ==
    /\ PlainKeyStep /\ StepKey = "Enter"
    /\ editor_style = "Vim" /\ mode = "Command"
    /\ starts_with(status_message, ":")

\* The step submits this command.
Submits(command) == CommandEnter /\ command_buffer = command

\* What the file operation of the submitted command met (CommandKey).
StepIO == typed'[Len(typed')][3]

UnsavedWarning == <<"No write since last change (use :q! to force)">>

\* C22: :q on a modified buffer keeps the session open and the lines as they
\* are and leaves the unsaved-changes warning on the status line; :q! closes
\* the session whatever the modified flag.
C22_QuitGuarded ==
    [][/\ (Submits(<<"q">>) /\ modified) =>
            /\ ~panicked' /\ viewer_editing' /\ lines' = lines
            /\ status_message' = UnsavedWarning
       /\ Submits(<<"q", "!">>) => ~viewer_editing']_vars

\* The status line a command leaves for its outcome.
NormalIndicator == <<"-- NORMAL --">>
UnknownCommand(command) == <<"Unknown command: ">> \o command
SaveCommands == {<<"w">>, <<"w", "q">>, <<"x">>, <<"w", "q", "!">>, <<"x", "!">>}
RecognizedCommands ==
    SaveCommands \cup
    {<<"q">>, <<"q", "!">>, <<"e", "!">>, <<"$">>, <<"0">>,
     <<"s", "e", "t", " ", "n", "u">>,
     <<"s", "e", "t", " ", "n", "u", "m", "b", "e", "r">>,
     <<"n", "o", "h">>, <<"n", "o", "h", "l", "s", "e", "a", "r", "c", "h">>}
IsInteger(command) == command # <<>> /\ \A i \in DOMAIN command : command[i] \in Digits
IsSubstitute(command) ==
    \/ command_starts_with(command, <<"s", "/">>)
    \/ command_starts_with(command, <<"%", "s", "/">>)
Unrecognized(command) ==
    /\ command \notin RecognizedCommands
    /\ ~IsInteger(command)
    /\ ~IsSubstitute(command)

\* C23: after Enter in Command mode the status line shows the outcome of the
\* command and not the plain Normal-mode indicator: here, for the commands of
\* SpecCommand that leave the session open, the unknown-command report, the
\* save result of :w and the reload result of :e!.
C23_OutcomeOnStatusLine ==
    [][(CommandEnter /\ viewer_editing') =>
          /\ ~panicked'
          /\ Unrecognized(command_buffer) =>
                status_message' = UnknownCommand(command_buffer)
          /\ command_buffer \in SaveCommands =>
                status_message' # NormalIndicator
          /\ (command_buffer = <<"e", "!">> /\ file_path = "Some") =>
                status_message' \in {<<"File reloaded">>, <<"Error reloading file">>}]_vars

\* C24: a submitted command that is not recognized, not an integer and not a
\* substitute returns to Normal mode with the session open and leaves the
\* lines, the register, the modified flag and the undo and redo stacks as
\* they are.
C24_UnknownCommandFrame ==
    [][(CommandEnter /\ Unrecognized(command_buffer)) =>
          /\ ~panicked' /\ viewer_editing' /\ mode' = "Normal"
          /\ lines' = lines
          /\ clipboard' = clipboard /\ clipboard_is_line' = clipboard_is_line
          /\ modified' = modified
          /\ undo_stack' = undo_stack /\ redo_stack' = redo_stack]_vars

\* After x the unknown command :! has been submitted.
C24_Witness ==
    /\ \E io \in BOOLEAN :
          typed = << <<"None", "x">>, <<"None", ":">>, <<"None", "!", TRUE>>,
                     <<"None", "Enter", io>> >>
    /\ mode = "Normal" /\ modified /\ undo_stack # <<>> /\ clipboard # <<>>

\* C25: :0 puts the cursor on row 0 and :$ on the last row, from any cursor
\* position; the lines are unchanged and the mode is Normal.
C25_FirstAndLastLine ==
    [][/\ Submits(<<"0">>) =>
            /\ ~panicked' /\ cursor_row' = 0
            /\ lines' = lines /\ mode' = "Normal"
       /\ Submits(<<"$">>) =>
            /\ ~panicked' /\ cursor_row' = Len(lines) - 1
            /\ lines' = lines /\ mode' = "Normal"]_vars

\* The number a string of decimal digits denotes.
RECURSIVE DecimalOf(_)
DecimalOf(s) ==
    IF s = <<>> THEN 0
    ELSE 10 * DecimalOf(SubSeq(s, 1, Len(s) - 1)) + DigitValue(s[Len(s)])

SaveFails == CommandEnter /\ command_buffer \in SaveCommands
             /\ ~(file_path = "Some" /\ StepIO)

\* C27: when the write of :w, :wq, :x, :wq! or :x! fails, the lines, the
\* cursor row, the register and the undo and redo stacks are unchanged, the
\* modified flag keeps its value, the session stays open (also for the
\* commands that quit) and the mode is Normal; a save command clears the
\* modified flag only when the write succeeds.
C27_FailedSaveFrame ==
    [][/\ SaveFails =>
            /\ ~panicked' /\ viewer_editing' /\ mode' = "Normal"
            /\ lines' = lines /\ cursor_row' = cursor_row
            /\ clipboard' = clipboard /\ clipboard_is_line' = clipboard_is_line
            /\ undo_stack' = undo_stack /\ redo_stack' = redo_stack
            /\ modified' = modified
            /\ disk' = disk
       /\ (CommandEnter /\ command_buffer \in SaveCommands /\ modified /\ ~modified') =>
            /\ file_path = "Some" /\ StepIO
            /\ disk' = join(lines, <<"\n">>)]_vars

\* After x the write of :wq has failed, and the modified session is open.
C27_Witness ==
    /\ typed = << <<"None", "x">>, <<"None", ":">>, <<"None", "w", TRUE>>,
                  <<"None", "q", TRUE>>, <<"None", "Enter", FALSE>> >>
    /\ viewer_editing /\ modified /\ mode = "Normal" /\ file_path = "Some"

\* The lines that str::lines() makes of the content on disk: no line holds a
\* newline, and joined by newlines they are the content, less one final
\* newline.
IsLinesOf(ls, content) ==
    /\ \A i \in DOMAIN ls : \A j \in DOMAIN ls[i] : ls[i][j] # "\n"
    /\ content = join(ls, <<"\n">>)
                 \o (IF content # <<>> /\ content[Len(content)] = "\n"
                     THEN <<"\n">> ELSE <<>>)

\* C28: a successful :e! leaves the lines of the reloaded content (one empty
\* line when it is empty), the cursor on (0, 0), the modified flag false and
\* both stacks empty; when the reload does not succeed, the lines, the
\* modified flag and the stacks are unchanged.
C28_Reload ==
    [][Submits(<<"e", "!">>) =>
          /\ ~panicked' /\ mode' = "Normal"
          /\ (file_path = "Some" /\ StepIO) =>
                /\ IsLinesOf(lines', disk)
                /\ Len(lines') >= 1 /\ (disk = <<>> => lines' = << <<>> >>)
                /\ cursor_row' = 0 /\ cursor_col' = 0
                /\ ~modified'
                /\ undo_stack' = <<>> /\ redo_stack' = <<>>
          /\ ~(file_path = "Some" /\ StepIO) =>
                /\ lines' = lines /\ modified' = modified
                /\ undo_stack' = undo_stack /\ redo_stack' = redo_stack]_vars

\* After x the reload of :e! has brought back the three lines of the file.
C28_Witness ==
    /\ typed = << <<"None", "x">>, <<"None", ":">>, <<"None", "e", TRUE>>,
                  <<"None", "!", TRUE>>, <<"None", "Enter", TRUE>> >>
    /\ file_path = "Some" /\ Len(lines) = 3 /\ lines[1] = <<"o", "n", "e">>
    /\ ~modified /\ undo_stack = <<>>

-----------------------------------------------------------------------------
(* SpecSubst: substitute commands. A session starts in Command mode, after *)
(* j has been pressed down to a row, ":" has opened the command line and   *)
(* the characters of a substitute command up to its replacement have been  *)
(* typed; MaxKeys keys follow, which end the command, submit it and undo.  *)

FooBar == <<"f", "o", "o", " ", "f", "o", "o", "\n", "b", "a", "r">>
AaA == <<"a", "a", " ", "a", "\n", "a", "\n", "b">>
SubstTexts == {FooBar, AaA}

\* (old, new) of the commands
SubstPairs == { << <<"f", "o", "o">>, <<"b", "a", "z">> >>,
                << <<"o">>, <<>> >>,
                << <<"a">>, <<"b">> >>,
                << <<"a", "a">>, <<"a">> >>,
                << <<"a">>, <<"a", "a">> >> }
SubstHeads == { <<"s", "/">>, <<"%", "s", "/">> }
SubstPrefixes ==
    { head \o pair[1] \o <<"/">> \o pair[2] : head \in SubstHeads, pair \in SubstPairs }

\* The editor after the keys of cs have been typed on the command line
RECURSIVE TypeCommand(_, _)
TypeCommand(e, cs) ==
    IF cs = <<>> THEN e ELSE TypeCommand(append_command_char(e, Head(cs)), Tail(cs))

\* The editor after j has been pressed n times
RECURSIVE PressDown(_, _)
PressDown(e, n) == IF n = 0 THEN e ELSE PressDown(move_cursor_down(e), n - 1)

\* The session is in the state of the editor record e, and no key is kept yet.
Resume(e) ==
    /\ lines = e.lines /\ cursor_row = e.cursor_row /\ cursor_col = e.cursor_col
    /\ mode = e.mode /\ editor_style = e.editor_style
    /\ command_buffer = e.command_buffer /\ clipboard = e.clipboard
    /\ clipboard_is_line = e.clipboard_is_line
    /\ status_message = e.status_message /\ modified = e.modified
    /\ pending_op = e.pending_op /\ undo_stack = e.undo_stack
    /\ redo_stack = e.redo_stack /\ search_pattern = e.search_pattern
    /\ search_direction = e.search_direction
    /\ last_search_row = e.last_search_row /\ last_search_col = e.last_search_col
    /\ visual_start_row = e.visual_start_row
    /\ visual_start_col = e.visual_start_col /\ count_buffer = e.count_buffer
    /\ nano_search_mode = e.nano_search_mode /\ file_path = e.file_path
    /\ viewer_editing = e.viewer_editing /\ disk = e.disk
    /\ panicked = e.panicked
    /\ typed = <<>>

SubstProfile ==
    [normal |-> {"u", ":"}, insert |-> {}, command |-> {"/", "g", "Enter"},
     visual |-> {}, nano |-> {}, nano_ctrl |-> {}, vim_ctrl |-> {}, clip |-> {},
     record |-> "keys", max_keys |-> MaxKeys]

InitSubst ==
    \E content \in SubstTexts, n \in 0..1, prefix \in SubstPrefixes :
       Resume(TypeCommand(enter_command_mode(PressDown(new(content, "Some"), n)),
                          prefix))

NextSubst ==
    \/ NormalKey(SubstProfile)
    \/ CommandKey(SubstProfile)

SpecSubst == InitSubst /\ [][NextSubst]_vars

\* The substitute commands of the form [%]s/old/new/[g] with old and new a
\* pair of SubstPairs: whole marks the % prefix and all the g flag.
SubstForms ==
    [whole : BOOLEAN, pair : SubstPairs, all : BOOLEAN]
CommandOf(f) ==
    (IF f.whole THEN <<"%", "s", "/">> ELSE <<"s", "/">>)
    \o f.pair[1] \o <<"/">> \o f.pair[2] \o <<"/">>
    \o (IF f.all THEN <<"g">> ELSE <<>>)

\* The occurrences of old in line taken from the left without overlap, from
\* offset i on: their number, and the line with each replaced by new.
RECURSIVE OccurrencesFrom(_, _, _)
OccurrencesFrom(line, old, i) ==
    IF i + Len(old) > Len(line) THEN 0
    ELSE IF MatchAt(line, old, i) THEN 1 + OccurrencesFrom(line, old, i + Len(old))
    ELSE OccurrencesFrom(line, old, i + 1)
RECURSIVE AllReplacedFrom(_, _, _, _)
AllReplacedFrom(line, old, new_text, i) ==
    IF i >= Len(line) THEN <<>>
    ELSE IF MatchAt(line, old, i)
    THEN new_text \o AllReplacedFrom(line, old, new_text, i + Len(old))
    ELSE <<line[i + 1]>> \o AllReplacedFrom(line, old, new_text, i + 1)
\* The line with its first occurrence of old replaced by new.
FirstReplaced(line, old, new_text) ==
    IF \E i \in 0..Len(line) : MatchAt(line, old, i)
    THEN LET i == CHOOSE i \in 0..Len(line) :
                    MatchAt(line, old, i) /\ \A j \in 0..(i - 1) : ~MatchAt(line, old, j)
         IN SubSeq(line, 1, i) \o new_text \o SubSeq(line, i + Len(old) + 1, Len(line))
    ELSE line

\* What the substitute command of form f is to do to a line in its scope, and
\* how many occurrences that replaces.
SubstLine(f, line) ==
    IF f.all THEN AllReplacedFrom(line, f.pair[1], f.pair[2], 0)
    ELSE FirstReplaced(line, f.pair[1], f.pair[2])
SubstCount(f, line) ==
    IF f.all THEN OccurrencesFrom(line, f.pair[1], 0)
    ELSE Min(1, OccurrencesFrom(line, f.pair[1], 0))
SubstScope(f) == IF f.whole THEN DOMAIN lines ELSE {cursor_row + 1}
SubstTotal(f) ==
    Sum([i \in DOMAIN lines |->
           IF i \in SubstScope(f) THEN SubstCount(f, lines[i]) ELSE 0])
SubstLines(f) ==
    [i \in DOMAIN lines |->
       IF i \in SubstScope(f) THEN SubstLine(f, lines[i]) ELSE lines[i]]

\* C21: :s/old/new/ replaces literal occurrences of old on the cursor line
\* only and :%s/old/new/ on every line, the first occurrence of each line
\* without the g flag and all of them with it; the lines outside the scope
\* are unchanged, and the number of replacements the command counts is the
\* number of occurrences it has replaced (the modified flag is set when that
\* is not zero).
C21_SubstituteScope ==
    [][\A f \in SubstForms :
          Submits(CommandOf(f)) =>
             /\ ~panicked'
             /\ lines' = SubstLines(f)
             /\ substitute_lines(Ed, command_buffer).total_replacements = SubstTotal(f)
             /\ modified' = (modified \/ SubstTotal(f) > 0)]_vars

\* %s/foo/baz/g has been submitted on the lines "foo foo" and "bar".
C21_Witness ==
    /\ Len(typed) = 3
    /\ typed[1][2] = "/" /\ typed[2][2] = "g" /\ typed[3][2] = "Enter"
    /\ lines = << <<"b", "a", "z", " ", "b", "a", "z">>, <<"b", "a", "r">> >>
    /\ modified /\ mode = "Normal"

-----------------------------------------------------------------------------
(* SpecSearch: searches entered with / and repeated with n, N and *, in   *)
(* sessions of MaxSearchKeys keys that may move the cursor with j and l.   *)

MaxSearchKeys == 5

SearchProfile ==
    [normal |-> {"n", "N", "*", "/", "j", "l"}, insert |-> {},
     command |-> {"b", "Enter"},
     visual |-> {}, nano |-> {}, nano_ctrl |-> {}, vim_ctrl |-> {}, clip |-> {},
     record |-> "keys", max_keys |-> MaxSearchKeys]

ABC == <<"a", "\n", "b", "\n", "c">>
SearchTexts == { ABC, <<"a", "b", " ", "b">>, <<" ", "a">> }

InitSearch == \E content \in SearchTexts : Open(content, "Some")

NextSearch ==
    \/ NormalKey(SearchProfile)
    \/ CommandKey(SearchProfile)

SpecSearch == InitSearch /\ [][NextSearch]_vars

\* The step is the Normal-mode key k with no count and no operator pending.
SearchKeyStep(k) ==
    /\ PlainKeyStep /\ StepKey = k
    /\ InVimNormal /\ pending_op = "None" /\ count_buffer = <<>>

\* The positions (row, column) where a non-empty pat occurs in the buffer, and
\* their document order.
Occurrences(pat) ==
    UNION { { <<row, col>> : col \in { c \in 0..Len(lines[row + 1]) :
                                         pat # <<>> /\ MatchAt(lines[row + 1], pat, c) } } :
            row \in 0..(Len(lines) - 1) }
Precedes(p, q) == p[1] < q[1] \/ (p[1] = q[1] /\ p[2] < q[2])
FirstOf(S) == CHOOSE p \in S : \A q \in S : p = q \/ Precedes(p, q)
LastOf(S) == CHOOSE p \in S : \A q \in S : p = q \/ Precedes(q, p)
OccurrencesAfter(pat) == { p \in Occurrences(pat) : Precedes(<<cursor_row, cursor_col>>, p) }
OccurrencesBefore(pat) == { p \in Occurrences(pat) : Precedes(p, <<cursor_row, cursor_col>>) }

\* C29: n with a pattern that occurs in the buffer puts the cursor on the
\* first occurrence after the cursor in document order, or, when there is
\* none, on the first occurrence from the top, and the status is the wrapped
\* one exactly in the second case; N is the mirror image, with the last
\* occurrence before the cursor or else the last from the bottom.
C29_SearchLandsOnOccurrence ==
    [][/\ (SearchKeyStep("n") /\ Occurrences(search_pattern) # {}) =>
            /\ ~panicked'
            /\ IF OccurrencesAfter(search_pattern) # {}
               THEN /\ <<cursor_row', cursor_col'>> = FirstOf(OccurrencesAfter(search_pattern))
                    /\ status_message' = <<"/">> \o search_pattern
               ELSE /\ <<cursor_row', cursor_col'>> = FirstOf(Occurrences(search_pattern))
                    /\ status_message' = <<"/">> \o search_pattern \o <<" (wrapped)">>
       /\ (SearchKeyStep("N") /\ Occurrences(search_pattern) # {}) =>
            /\ ~panicked'
            /\ IF OccurrencesBefore(search_pattern) # {}
               THEN /\ <<cursor_row', cursor_col'>> = LastOf(OccurrencesBefore(search_pattern))
                    /\ status_message' = <<"?">> \o search_pattern
               ELSE /\ <<cursor_row', cursor_col'>> = LastOf(Occurrences(search_pattern))
                    /\ status_message' = <<"?">> \o search_pattern \o <<" (wrapped)">>]_vars

\* The status of a search that has found nothing.
IsNotFoundStatus(msg) ==
    \/ msg = <<"No search pattern">>
    \/ starts_with(msg, "Pattern not found: ")
\* The cursor is on no word character.
NoWordUnderCursor ==
    \/ cursor_col >= Len(lines[cursor_row + 1])
    \/ ~is_word_char(lines[cursor_row + 1][cursor_col + 1])
\* The search of key k has nothing to find: for n and N no pattern is
\* recorded or the recorded one occurs nowhere, for * no pattern is recorded
\* and there is no word under the cursor to take one from.
NothingToFind(k) ==
    \/ k \in {"n", "N"} /\ Occurrences(search_pattern) = {}
    \/ k = "*" /\ search_pattern = <<>> /\ NoWordUnderCursor

\* C30: n, N and * with nothing to find leave the cursor and the lines where
\* they are and set a not-found status.
C30_NothingFound ==
    [][\A k \in {"n", "N", "*"} :
          (SearchKeyStep(k) /\ NothingToFind(k)) =>
             /\ ~panicked'
             /\ cursor_row' = cursor_row /\ cursor_col' = cursor_col
             /\ lines' = lines
             /\ IsNotFoundStatus(status_message')]_vars

-----------------------------------------------------------------------------
(* SpecOpen: sessions opened on every text of at most MaxTextLen          *)
(* characters out of a letter, a line feed and a carriage return, in which *)
(* the buffer is written back with :w without an edit.                     *)

MaxTextLen == 3
TextChars == {"a", "\n", "\r"}

RECURSIVE TextsOfLen(_)
TextsOfLen(n) ==
    IF n = 0 THEN { <<>> }
    ELSE { Append(t, c) : t \in TextsOfLen(n - 1), c \in TextChars }
OpenTexts == UNION { TextsOfLen(n) : n \in 0..MaxTextLen }

OpenProfile ==
    [normal |-> {":"}, insert |-> {}, command |-> {"w", "Enter"},
     visual |-> {}, nano |-> {}, nano_ctrl |-> {}, vim_ctrl |-> {}, clip |-> {},
     record |-> "keys", max_keys |-> MaxKeys]

InitOpen == \E content \in OpenTexts, path \in FilePaths : Open(content, path)

NextOpen ==
    \/ NormalKey(OpenProfile)
    \/ CommandKey(OpenProfile)

SpecOpen == InitOpen /\ [][NextOpen]_vars

\* The session has just been opened; disk is then the text it was opened on.
JustOpened == typed = <<>>
HasLineBreak(text) == \E i \in DOMAIN text : text[i] = "\n"
\* The session is in the start state of an editor.
StartState ==
    /\ mode = "Normal" /\ cursor_row = 0 /\ cursor_col = 0
    /\ ~modified /\ pending_op = "None"
    /\ undo_stack = <<>> /\ redo_stack = <<>>
\* No line of the buffer holds a line feed.
LinesAreSplit == \A i \in DOMAIN lines : ~HasLineBreak(lines[i])

\* C31 as stated: a session opened on a text that is empty or has no line
\* break holds exactly one empty line, and starts in Normal mode at (0, 0),
\* unmodified, with no pending operator and empty undo and redo stacks.
C31_NoBreakGivesEmptyLine ==
    JustOpened =>
       /\ LinesAreSplit /\ StartState
       /\ (disk = <<>> \/ ~HasLineBreak(disk)) => lines = << <<>> >>

\* C31 amended: a session opened on the empty text holds exactly one empty
\* line and one opened on a text without a line break exactly one line, that
\* text; the lines hold no line break, and the session starts in Normal mode
\* at (0, 0), unmodified, with no pending operator and empty stacks.
C31_OpenedBuffer ==
    JustOpened =>
       /\ LinesAreSplit /\ StartState
       /\ disk = <<>> => lines = << <<>> >>
       /\ (disk # <<>> /\ ~HasLineBreak(disk)) => lines = <<disk>>

\* A session has been opened on the text "a".
C31_Witness == JustOpened /\ disk = <<"a">> /\ lines = << <<"a">> >>

\* C39: the text a just opened session exports (its lines joined by line
\* feeds) is the text it was opened on.
C39_OpenExportRoundTrip == JustOpened => get_content(Ed) = disk

-----------------------------------------------------------------------------
(* SpecPending: operators, counts and the keys that leave Normal mode, in  *)
(* sessions of MaxKeys keys.                                                *)

PendingProfile ==
    [normal |-> {"2", "d", "y", "c", ">", "<", "$", "w", "G", "g",
                 "i", "v", "V", ":", "/", "?", "r"},
     insert |-> {"Esc"}, command |-> {"Esc"}, visual |-> {"Esc"},
     nano |-> {"Esc"}, nano_ctrl |-> {},
     vim_ctrl |-> {"d"}, clip |-> {"c"},
     record |-> "keys", max_keys |-> MaxKeys]

InitPending == \E content \in OpTexts : Open(content, "Some")

NextPending ==
    \/ ClipboardOp(PendingProfile)
    \/ ToggleStyle(PendingProfile)
    \/ VimCtrlKey(PendingProfile)
    \/ NormalKey(PendingProfile)
    \/ InsertKey(PendingProfile)
    \/ CommandKey(PendingProfile)
    \/ VisualKey(PendingProfile)
    \/ NanoKey(PendingProfile)

SpecPending == InitPending /\ [][NextPending]_vars

\* The pending operator and the key that completes it.
OperatorCompletions ==
    { <<"Delete", "d">>, <<"Yank", "y">>, <<"Change", "c">>,
      <<"Indent", ">">>, <<"Outdent", "<">>,
      <<"Delete", "$">>, <<"Yank", "$">>, <<"Change", "$">>,
      <<"Delete", "w">>, <<"Delete", "G">>, <<"Delete", "g">> }
\* The step is the key that completes the pending operator.
CompletesOperator ==
    /\ PlainKeyStep /\ InVimNormal
    /\ <<pending_op, StepKey>> \in OperatorCompletions

\* C32: every state a key leaves in a mode other than Normal has no pending
\* operator and an empty count, and so has the state right after the key
\* that completes an operator (dd, yy, cc, >>, <<, d$, y$, c$, dw, dG, dgg).
C32_PendingOnlyInNormal ==
    [][/\ mode' # "Normal" => (pending_op' = "None" /\ count_buffer' = <<>>)
       /\ CompletesOperator =>
             (~panicked' /\ pending_op' = "None" /\ count_buffer' = <<>>)]_vars

\* 2dd has been typed, and d, i has left Normal mode.
C32_Witness ==
    \/ /\ typed = << <<"None", "2">>, <<"None", "d">>, <<"None", "d">> >>
       /\ pending_op = "None" /\ count_buffer = <<>>
    \/ /\ typed = << <<"None", "d">>, <<"None", "2">>, <<"None", "i">> >>
       /\ mode = "Insert" /\ pending_op = "None" /\ count_buffer = <<>>

-----------------------------------------------------------------------------
(* SpecEntry: the entry of a command or a search, opened with :, / or ?,   *)
(* with the keys the editor handles meanwhile (characters, Backspace,      *)
(* Ctrl+R, Ctrl+D, Ctrl+C), in sessions of MaxTyped keys.                  *)

EntryKeys == {":", "/", "?"}

EntryProfile ==
    [normal |-> EntryKeys, insert |-> {},
     command |-> {"r", "q", "b", "Backspace", "Enter", "Esc"},
     visual |-> {}, nano |-> {}, nano_ctrl |-> {},
     vim_ctrl |-> {"r", "d"}, clip |-> {"c"},
     record |-> "keys", max_keys |-> MaxTyped]

InitEntry == \E content \in {AbcDef, ABC} : Open(content, "Some")

NextEntry ==
    \/ ClipboardOp(EntryProfile)
    \/ VimCtrlKey(EntryProfile)
    \/ NormalKey(EntryProfile)
    \/ CommandKey(EntryProfile)

SpecEntry == InitEntry /\ [][NextEntry]_vars

\* The key that opened the entry in progress: the last of :, / and ? typed
\* (the entries of SpecEntry hold none of the three as a character).
RECURSIVE LastEntryKey(_)
LastEntryKey(keys) ==
    IF keys = <<>> THEN ""
    ELSE IF keys[Len(keys)][1] = "None" /\ keys[Len(keys)][2] \in EntryKeys
    THEN keys[Len(keys)][2]
    ELSE LastEntryKey(SubSeq(keys, 1, Len(keys) - 1))
\* An entry is in progress: opened, and neither submitted nor cancelled.
Entering == ~panicked /\ mode = "Command" /\ LastEntryKey(typed) # ""

\* C33: while a command or a search is entered, a character key appends the
\* character to the command buffer and leaves the lines, the cursor, the
\* register and the mode as they are; Esc returns to Normal mode with an
\* empty command buffer and the lines unchanged.
C33_EntryOnlyAppends ==
    [][/\ (Entering /\ PlainKeyStep /\ IsChar(StepKey)) =>
            /\ ~panicked'
            /\ command_buffer' = Append(command_buffer, StepKey)
            /\ lines' = lines /\ cursor_row' = cursor_row /\ cursor_col' = cursor_col
            /\ clipboard' = clipboard /\ clipboard_is_line' = clipboard_is_line
            /\ mode' = "Command"
       /\ (Entering /\ PlainKeyStep /\ StepKey = "Esc") =>
            /\ ~panicked' /\ mode' = "Normal" /\ command_buffer' = <<>>
            /\ lines' = lines]_vars

\* C34: Enter on a search entry, opened with / or ?, runs the typed text as
\* a search, whatever keys were handled since the entry was opened: the text
\* becomes the search pattern, the session stays open, and the state is the
\* one execute_search leaves.
C34_SearchEntryStaysSearch ==
    [][(Entering /\ LastEntryKey(typed) \in {"/", "?"}
        /\ PlainKeyStep /\ StepKey = "Enter" /\ command_buffer # <<>>) =>
          /\ ~panicked' /\ viewer_editing'
          /\ search_pattern' = command_buffer
          /\ cursor_row' = execute_search(Ed).cursor_row
          /\ cursor_col' = execute_search(Ed).cursor_col
          /\ lines' = lines /\ mode' = "Normal"]_vars

-----------------------------------------------------------------------------
(* SpecRedo: deletions in Vim style and typing in Nano style, undone and   *)
(* redone, in sessions of MaxRedoKeys keys.                                 *)

MaxRedoKeys == 5

RedoProfile ==
    [normal |-> {"x", "h", "u"}, insert |-> {}, command |-> {}, visual |-> {},
     nano |-> {"a"}, nano_ctrl |-> {}, vim_ctrl |-> {"r"}, clip |-> {},
     record |-> "keys", max_keys |-> MaxRedoKeys]

RedoTexts == {<<>>, <<"a", "b", "\n", "c">>}

InitRedo == \E content \in RedoTexts : Open(content, "Some")

NextRedo ==
    \/ ToggleStyle(RedoProfile)
    \/ VimCtrlKey(RedoProfile)
    \/ NormalKey(RedoProfile)
    \/ NanoKey(RedoProfile)

SpecRedo == InitRedo /\ [][NextRedo]_vars

\* The editor after the key u, and after Ctrl+R pressed right after it.
Undone == handle_normal_mode_keys(Ed, "u")
Redone == vim_ctrl_keys(Undone, "r")

\* C35: in Normal mode with something to undo, u and then Ctrl+R give back
\* the lines and the cursor (row, col) there were before the u, and leave
\* the undo stack and the redo stack as they were before the u.
C35_RedoInvertsUndo ==
    (InVimNormal /\ ~panicked /\ pending_op = "None" /\ undo_stack # <<>>) =>
        /\ Redone.lines = lines
        /\ Redone.cursor_row = cursor_row /\ Redone.cursor_col = cursor_col
        /\ Redone.undo_stack = undo_stack /\ Redone.redo_stack = redo_stack

-----------------------------------------------------------------------------
(* SpecSaved: deletions, :w, undo and redo, in sessions of MaxCommandKeys  *)
(* keys.                                                                    *)

SavedProfile ==
    [normal |-> {"x", "u", ":"}, insert |-> {}, command |-> {"w", "q", "Enter"},
     visual |-> {}, nano |-> {}, nano_ctrl |-> {}, vim_ctrl |-> {"r"},
     clip |-> {}, record |-> "keys", max_keys |-> MaxCommandKeys]

InitSaved == \E content \in {<<"a", "b">>, ABC} : Open(content, "Some")

NextSaved ==
    \/ VimCtrlKey(SavedProfile)
    \/ NormalKey(SavedProfile)
    \/ CommandKey(SavedProfile)

SpecSaved == InitSaved /\ [][NextSaved]_vars

\* The buffer holds the text of the file: the text it exports is the file's,
\* or its lines are the lines that opening the file gives.
MatchesFile ==
    \/ get_content(Ed) = disk
    \/ lines = new(disk, file_path).lines

\* C36: while the session is open and is_modified() is false, the buffer
\* holds the text last loaded or last saved, which is the text of the file.
C36_UnmodifiedMatchesFile ==
    (viewer_editing /\ ~panicked /\ ~modified) => MatchesFile

-----------------------------------------------------------------------------
(* SpecFrame: the edit keys x, ~, r, << and dw with undo and Ctrl+R, on a  *)
(* file with an empty line, in sessions of MaxTyped keys.                   *)

FrameProfile ==
    [normal |-> {"x", "~", "r", "<", "d", "w", "u", "j"}, insert |-> {},
     command |-> {"b"}, visual |-> {}, nano |-> {}, nano_ctrl |-> {},
     vim_ctrl |-> {"r"}, clip |-> {}, record |-> "keys", max_keys |-> MaxTyped]

FrameTexts == {<<"a", "\n", "\n", "b">>, <<"a", " ", "\n", " ", "b">>}

InitFrame == \E content \in FrameTexts : Open(content, "Some")

NextFrame ==
    \/ VimCtrlKey(FrameProfile)
    \/ NormalKey(FrameProfile)
    \/ CommandKey(FrameProfile)

SpecFrame == InitFrame /\ [][NextFrame]_vars

\* The step is the key of an edit action that has nothing to change: x or ~
\* on an empty line, the character that follows r on an empty line, the
\* second < of << on a line without a leading space, or the w of dw.
IdleEditStep ==
    /\ PlainKeyStep /\ editor_style = "Vim" /\ RowOk(Ed)
    /\ \/ /\ mode = "Normal" /\ pending_op = "None" /\ StepKey \in {"x", "~"}
          /\ get_current_line(Ed) = <<>>
       \/ /\ mode = "Command" /\ command_buffer = <<"r">> /\ StepKey = "b"
          /\ get_current_line(Ed) = <<>>
       \/ /\ mode = "Normal" /\ pending_op = "Outdent" /\ StepKey = "<"
          /\ (get_current_line(Ed) = <<>> \/ Head(get_current_line(Ed)) # " ")
       \/ mode = "Normal" /\ pending_op = "Delete" /\ StepKey = "w"

\* C37: x, r or ~ on an empty line, << on a line without leading spaces and
\* a dw that removes nothing leave the lines, the undo stack and the redo
\* stack as they were.
C37_NoChangeNoHistory ==
    [][(IdleEditStep /\ lines' = lines) =>
          (~panicked' /\ undo_stack' = undo_stack /\ redo_stack' = redo_stack)]_vars

-----------------------------------------------------------------------------
(* The buffer as a sequence of single lines *)

\* The number of lines of the text: one more than its line feeds.
RECURSIVE LineFeeds(_)
LineFeeds(text) ==
    IF text = <<>> THEN 0
    ELSE (IF Head(text) = "\n" THEN 1 ELSE 0) + LineFeeds(Tail(text))

\* C38: no line of the buffer holds a line feed, so the exported text has
\* as many lines as the buffer.
C38_SingleLines ==
    ~panicked =>
       /\ \A i \in 1..Len(lines) : \A j \in 1..Len(lines[i]) : lines[i][j] # "\n"
       /\ LineFeeds(get_content(Ed)) + 1 = Len(lines)

-----------------------------------------------------------------------------
(* SpecNano: typing, Esc, Ctrl+X, Ctrl+O, Ctrl+Z and Ctrl+W in Nano style, *)
(* in sessions of MaxTyped keys.                                            *)

NanoProfile ==
    [normal |-> {"x"}, insert |-> {}, command |-> {}, visual |-> {},
     nano |-> {"a", "Esc", "Backspace"}, nano_ctrl |-> {"x", "o", "z", "w"},
     vim_ctrl |-> {}, clip |-> {}, record |-> "keys", max_keys |-> MaxTyped]

InitNano == \E content \in {<<>>, <<"a", "b">>} : Open(content, "Some")

NextNano ==
    \/ ToggleStyle(NanoProfile)
    \/ NormalKey(NanoProfile)
    \/ NanoKey(NanoProfile)
    \/ NanoCtrlKey(NanoProfile)

SpecNano == InitNano /\ [][NextNano]_vars

DiscardPrompt == <<"Modified! Press ESC again to discard, ^O to save">>
\* Esc has just been pressed on a modified buffer in Nano style and has
\* shown the message that asks for a second Esc.
AskedToDiscard ==
    /\ editor_style = "Nano" /\ viewer_editing /\ ~panicked /\ modified
    /\ ~nano_search_mode
    /\ typed # <<>> /\ typed[Len(typed)] = <<"None", "Esc">>
    /\ status_message = DiscardPrompt

\* C40: in Nano style the Esc pressed right after the Esc that showed the
\* discard message closes the session, and leaves the file as it is.
C40_SecondEscDiscards ==
    [][(AskedToDiscard /\ PlainKeyStep /\ StepKey = "Esc") =>
          (~viewer_editing' /\ disk' = disk)]_vars

====
